---------------------------- MODULE Spec2Model ----------------------------
(***************************************************************************)
(* A model of ws6in1-proto: the frame and command codec, the message       *)
(* dispatcher, the fragment assembler and the text telegram parser.        *)
(*                                                                         *)
(* Bytes are integers 0..255, byte buffers are sequences of bytes.  A      *)
(* cursor is a record [buf, pos]: pos is the number of bytes already read  *)
(* or written, so the next byte is buf[pos + 1].                           *)
(*                                                                         *)
(* A Rust panic (slice index out of range, arithmetic overflow with        *)
(* overflow checks on, unwrap of an Err) is the result [kind |-> "Panic"]. *)
(* Arithmetic overflow depends on the build profile: with overflow checks  *)
(* ("debug") it panics, without them ("release") it wraps.  The variable   *)
(* build holds the profile and is chosen nondeterministically in Init.     *)
(***************************************************************************)
EXTENDS Integers, Sequences, FiniteSets, TLC

VARIABLES
    build,      \* "debug" (overflow checks) or "release" (wrapping)
    storage,    \* container of the assembler: "std" (Vec) or "heapless"
    frag_idx,   \* Ws6in1AssemblerBase.frag_idx
    buffer,     \* Ws6in1AssemblerBase.buffer
    packet,     \* the frame passed to the last Ws6in1AssemblerBase::parse
    result,     \* what the last operation returned
    fed,        \* observer: the frames fed in order since the assembler
                \* was Idle, while they number 1, 2, ... with one frag_cnt
    accepted_frames,
                \* observer: the frames parse took since it last
                \* discarded a frame or returned a record
    sent,       \* client: the reports written to the device
    replay,     \* observer: the frames of a telegram fed twice over, with
                \* what parse returned for each
    returned,   \* client: what the call of read_weather_data returned,
                \* NoResult before it returns
    op,         \* the last operation performed
    msg,        \* codec: the value given to the last serialize
    wire,       \* codec: the byte buffer under the cursor
    pos         \* codec: the cursor position

vars == <<build, storage, frag_idx, buffer, packet, result, fed,
          accepted_frames, sent, replay, returned, op, msg, wire, pos>>

----------------------------------------------------------------------------
(* Program constants *)

MAX_MESSAGE_LEN == 256
HEADER_LENGTH == 5
PAYLOAD_LENGTH == 55
MAX_PAYLOAD_LEN == 54
FRAME_LENGTH == 64
FRAME_TYPE == 254
FOOTER_LENGTH == 3
MAGIC == 253
CMD_LENGTH == 8
CMD_TYPE == 252
SET_DATE_OPCODE == 8
SET_TIME_OPCODE == 9
EXT_SENSOR_COUNT == 7

----------------------------------------------------------------------------
(* Results *)

OkUnit == [kind |-> "Ok"]
Ok(v) == [kind |-> "Ok", val |-> v]
Panic == [kind |-> "Panic"]
NoResult == [kind |-> "NoResult"]

BufferTooSmall == [kind |-> "BufferTooSmall"]
BufferNotConsumed(n) == [kind |-> "BufferNotConsumed", trailing |-> n]
InvalidMagic(m) == [kind |-> "InvalidMagic", magic |-> m]
UnsupportedType(t) == [kind |-> "UnsupportedType", type |-> t]
UnsupportedOpcode(o) == [kind |-> "UnsupportedOpcode", opcode |-> o]
PayloadTooLarge(n) == [kind |-> "PayloadTooLarge", len |-> n]
UnexpectedEnd(t) == [kind |-> "UnexpectedEnd", tpos |-> t]
InvalidCharacter(i) == [kind |-> "InvalidCharacter", idx |-> i]
InvalidToken(t) == [kind |-> "InvalidToken", tpos |-> t]
GarbageEnd(c) == [kind |-> "GarbageEnd", char |-> c]
FragmentDiscarded(i) == [kind |-> "FragmentDiscarded", idx |-> i]
MessageTooLarge(n) == [kind |-> "MessageTooLarge", len |-> n]

IsOk(r) == r.kind = "Ok"

----------------------------------------------------------------------------
(* Bytes and the cursor (crate byteorder_cursor) *)

Zeros(n) == [i \in 1..n |-> 0]

Fill(n, b) == [i \in 1..n |-> b]

RECURSIVE BitOr(_, _)
BitOr(a, b) ==
    IF a = 0 THEN b
    ELSE IF b = 0 THEN a
    ELSE (IF a % 2 = 1 \/ b % 2 = 1 THEN 1 ELSE 0)
         + 2 * BitOr(a \div 2, b \div 2)

RECURSIVE BitAnd(_, _)
BitAnd(a, b) ==
    IF a = 0 \/ b = 0 THEN 0
    ELSE (IF a % 2 = 1 /\ b % 2 = 1 THEN 1 ELSE 0)
         + 2 * BitAnd(a \div 2, b \div 2)

Cursor(bytes) == [buf |-> bytes, pos |-> 0]

remaining(c) == Len(c.buf) - c.pos

check_remaining(c, n) == remaining(c) >= n

write_u8(c, v) ==
    [buf |-> [c.buf EXCEPT ![c.pos + 1] = v], pos |-> c.pos + 1]

write_u16_be(c, v) == write_u8(write_u8(c, v \div 256), v % 256)

write_bytes(c, bytes) ==
    [buf |-> [i \in 1..Len(c.buf) |->
                 IF i > c.pos /\ i <= c.pos + Len(bytes)
                 THEN bytes[i - c.pos] ELSE c.buf[i]],
     pos |-> c.pos + Len(bytes)]

peek_u8(c, off) == c.buf[c.pos + off + 1]

read_u8(c) == c.buf[c.pos + 1]

read_u16_be(c) == c.buf[c.pos + 1] * 256 + c.buf[c.pos + 2]

read_bytes(c, n) == SubSeq(c.buf, c.pos + 1, c.pos + n)

skip(c, n) == [c EXCEPT !.pos = c.pos + n]

(* What a serialize or deserialize call leaves behind: its result and the
   cursor. *)
Ret(r, c) == [res |-> r, cur |-> c]


----------------------------------------------------------------------------
(* Footer: two ignored checksum bytes and the magic byte *)

Ws6in1Footer_serialize(c) ==
    IF ~check_remaining(c, FOOTER_LENGTH) THEN Ret(BufferTooSmall, c)
    ELSE Ret(OkUnit, write_u8(write_u16_be(c, 0), MAGIC))

Ws6in1Footer_deserialize_IgnoresTrailing(c) ==
    IF ~check_remaining(c, FOOTER_LENGTH) THEN Ret(BufferTooSmall, c)
    ELSE LET magic == read_u8(skip(c, 2))
             c2 == skip(c, 3)
         IN  IF magic # MAGIC THEN Ret(InvalidMagic(magic), c2)
             ELSE Ret(OkUnit, c2)

Ws6in1Footer_deserialize_MagicUnchecked(c) ==
    IF ~check_remaining(c, FOOTER_LENGTH) THEN Ret(BufferTooSmall, c)
    ELSE LET c2 == skip(c, 3)
             trailing == remaining(c2)
         IN  IF trailing # 0 THEN Ret(BufferNotConsumed(trailing), c2)
             ELSE Ret(OkUnit, c2)

Ws6in1Footer_deserialize_ZeroChecksum(c) ==
    IF ~check_remaining(c, FOOTER_LENGTH) THEN Ret(BufferTooSmall, c)
    ELSE LET crc == read_u16_be(c)
             c1 == skip(c, 2)
             magic == read_u8(c1)
             c2 == skip(c1, 1)
             trailing == remaining(c2)
         IN  IF magic # MAGIC \/ crc # 0 THEN Ret(InvalidMagic(magic), c2)
             ELSE IF trailing # 0 THEN Ret(BufferNotConsumed(trailing), c2)
             ELSE Ret(OkUnit, c2)

Ws6in1Footer_deserialize(c) ==
    IF ~check_remaining(c, FOOTER_LENGTH) THEN Ret(BufferTooSmall, c)
    ELSE LET c1 == skip(c, 2)
             magic == read_u8(c1)
             c2 == skip(c1, 1)
             trailing == remaining(c2)
         IN  IF magic # MAGIC THEN Ret(InvalidMagic(magic), c2)
             ELSE IF trailing # 0 THEN Ret(BufferNotConsumed(trailing), c2)
             ELSE Ret(OkUnit, c2)

----------------------------------------------------------------------------
(* Data frame header *)

Ws6in1DataHeader(ic, ii, fc, fi) ==
    [item_cnt |-> ic, item_idx |-> ii, frag_cnt |-> fc, frag_idx |-> fi]

Ws6in1DataHeader_serialize_LittleEndian(hdr, c) ==
    IF ~check_remaining(c, HEADER_LENGTH) THEN Ret(BufferTooSmall, c)
    ELSE LET c1 == write_u8(write_u8(c, hdr.item_cnt % 256),
                            hdr.item_cnt \div 256)
             c2 == write_u8(write_u8(c1, hdr.item_idx % 256),
                            hdr.item_idx \div 256)
         IN  Ret(OkUnit,
                 write_u8(c2, BitOr((hdr.frag_cnt * 16) % 256, hdr.frag_idx)))

Ws6in1DataHeader_serialize(hdr, c) ==
    IF ~check_remaining(c, HEADER_LENGTH) THEN Ret(BufferTooSmall, c)
    ELSE LET c1 == write_u16_be(c, hdr.item_cnt)
             c2 == write_u16_be(c1, hdr.item_idx)
         IN  Ret(OkUnit,
                 write_u8(c2, BitOr((hdr.frag_cnt * 16) % 256, hdr.frag_idx)))

Ws6in1DataHeader_deserialize_NoShift(c) ==
    IF ~check_remaining(c, HEADER_LENGTH) THEN Ret(BufferTooSmall, c)
    ELSE LET item_cnt == read_u16_be(c)
             item_idx == read_u16_be(skip(c, 2))
             frag == read_u8(skip(c, 4))
         IN  Ret(Ok(Ws6in1DataHeader(item_cnt, item_idx,
                                     BitAnd(frag, 240),
                                     BitAnd(frag, 15))),
                 skip(c, 5))

Ws6in1DataHeader_deserialize(c) ==
    IF ~check_remaining(c, HEADER_LENGTH) THEN Ret(BufferTooSmall, c)
    ELSE LET item_cnt == read_u16_be(c)
             item_idx == read_u16_be(skip(c, 2))
             frag == read_u8(skip(c, 4))
         IN  Ret(Ok(Ws6in1DataHeader(item_cnt, item_idx,
                                     BitAnd(frag, 240) \div 16,
                                     BitAnd(frag, 15))),
                 skip(c, 5))

----------------------------------------------------------------------------
(* Payload: a length byte and 54 data bytes, zero padded *)

Ws6in1Payload(bytes) == [data |-> bytes]

(* The pad loop `for _ in 0..(MAX_PAYLOAD_LEN - len)`: the subtraction is
   usize arithmetic.  With len > 54 it panics when overflow checks are on;
   without them it wraps to a count near 2^64 and the loop writes zeros
   until write_u8 runs off the end of the buffer and panics. *)
PayloadPad(c, len, b) ==
    IF len <= MAX_PAYLOAD_LEN
    THEN Ret(OkUnit, write_bytes(c, Zeros(MAX_PAYLOAD_LEN - len)))
    ELSE IF b = "debug" THEN Ret(Panic, c)
    ELSE Ret(Panic, write_bytes(c, Zeros(remaining(c))))

Ws6in1PayloadBase_serialize(payload, c, b) ==
    IF ~check_remaining(c, PAYLOAD_LENGTH) THEN Ret(BufferTooSmall, c)
    ELSE LET len == Len(payload.data)
         IN  IF len > 255 THEN Ret(PayloadTooLarge(len), c)
             ELSE LET c1 == write_u8(c, len)
                  IN  IF remaining(c1) < len THEN Ret(Panic, c1)
                      ELSE PayloadPad(write_bytes(c1, payload.data), len, b)

Ws6in1PayloadBase_deserialize(c) ==
    IF ~check_remaining(c, PAYLOAD_LENGTH) THEN Ret(BufferTooSmall, c)
    ELSE LET len == read_u8(c)
             payload == read_bytes(skip(c, 1), MAX_PAYLOAD_LEN)
             c2 == skip(c, 1 + MAX_PAYLOAD_LEN)
         IN  IF len > MAX_PAYLOAD_LEN THEN Ret(Panic, c2)
             ELSE Ret(Ok(Ws6in1Payload(SubSeq(payload, 1, len))), c2)

----------------------------------------------------------------------------
(* Data frame *)

Ws6in1DataFrame(hdr, payload) == [hdr |-> hdr, payload |-> payload]

Ws6in1DataFrameBase_serialize_NoCheck(x, c, b) ==
    IF ~check_remaining(c, 1) THEN Ret(BufferTooSmall, c)
    ELSE LET h == Ws6in1DataHeader_serialize(x.hdr, write_u8(c, FRAME_TYPE))
         IN  IF ~IsOk(h.res) THEN h
             ELSE LET p == Ws6in1PayloadBase_serialize(x.payload, h.cur, b)
                  IN  IF ~IsOk(p.res) THEN p
                      ELSE Ws6in1Footer_serialize(p.cur)

Ws6in1DataFrameBase_serialize(x, c, b) ==
    IF ~check_remaining(c, FRAME_LENGTH) THEN Ret(BufferTooSmall, c)
    ELSE LET h == Ws6in1DataHeader_serialize(x.hdr, write_u8(c, FRAME_TYPE))
         IN  IF ~IsOk(h.res) THEN h
             ELSE LET p == Ws6in1PayloadBase_serialize(x.payload, h.cur, b)
                  IN  IF ~IsOk(p.res) THEN p
                      ELSE Ws6in1Footer_serialize(p.cur)

Ws6in1DataFrameBase_deserialize(c) ==
    IF ~check_remaining(c, FRAME_LENGTH) THEN Ret(BufferTooSmall, c)
    ELSE LET type == read_u8(c)
             c1 == skip(c, 1)
         IN  IF type # FRAME_TYPE THEN Ret(UnsupportedType(type), c1)
             ELSE LET h == Ws6in1DataHeader_deserialize(c1)
                  IN  IF ~IsOk(h.res) THEN h
                      ELSE LET p == Ws6in1PayloadBase_deserialize(h.cur)
                           IN  IF ~IsOk(p.res) THEN p
                               ELSE LET f == Ws6in1Footer_deserialize(p.cur)
                                    IN  IF ~IsOk(f.res) THEN f
                                        ELSE Ret(Ok(Ws6in1DataFrame(h.res.val,
                                                                    p.res.val)),
                                                 f.cur)

----------------------------------------------------------------------------
(* Commands *)

Ws6in1SetDate(d, m, y) == [day |-> d, month |-> m, year |-> y]

Ws6in1SetTime(h, m, s) == [hour |-> h, min |-> m, sec |-> s]

CmdWrite(c, opcode, p1, p2, p3) ==
    write_u8(write_u8(write_u8(write_u8(write_u8(c, CMD_TYPE), opcode),
                               p1), p2), p3)

Ws6in1SetDate_serialize_DayFirst(x, c) ==
    IF ~check_remaining(c, CMD_LENGTH) THEN Ret(BufferTooSmall, c)
    ELSE Ws6in1Footer_serialize(
             CmdWrite(c, SET_DATE_OPCODE, x.day, x.month, x.year))

Ws6in1SetDate_serialize(x, c) ==
    IF ~check_remaining(c, CMD_LENGTH) THEN Ret(BufferTooSmall, c)
    ELSE Ws6in1Footer_serialize(
             CmdWrite(c, SET_DATE_OPCODE, x.year, x.month, x.day))

Ws6in1SetTime_serialize(x, c) ==
    IF ~check_remaining(c, CMD_LENGTH) THEN Ret(BufferTooSmall, c)
    ELSE Ws6in1Footer_serialize(
             CmdWrite(c, SET_TIME_OPCODE, x.hour, x.min, x.sec))

Ws6in1SetDate_deserialize_FieldOrder(c) ==
    IF ~check_remaining(c, CMD_LENGTH) THEN Ret(BufferTooSmall, c)
    ELSE LET type == read_u8(c)
             opcode == read_u8(skip(c, 1))
         IN  IF type # CMD_TYPE THEN Ret(UnsupportedType(type), skip(c, 1))
             ELSE IF opcode # SET_DATE_OPCODE
                  THEN Ret(UnsupportedType(type), skip(c, 2))
             ELSE LET day == read_u8(skip(c, 2))
                      month == read_u8(skip(c, 3))
                      year == read_u8(skip(c, 4))
                      f == Ws6in1Footer_deserialize(skip(c, 5))
                  IN  IF ~IsOk(f.res) THEN f
                      ELSE Ret(Ok(Ws6in1SetDate(day, month, year)), f.cur)

Ws6in1SetDate_deserialize(c) ==
    IF ~check_remaining(c, CMD_LENGTH) THEN Ret(BufferTooSmall, c)
    ELSE LET type == read_u8(c)
             opcode == read_u8(skip(c, 1))
         IN  IF type # CMD_TYPE THEN Ret(UnsupportedType(type), skip(c, 1))
             ELSE IF opcode # SET_DATE_OPCODE
                  THEN Ret(UnsupportedType(type), skip(c, 2))
             ELSE LET year == read_u8(skip(c, 2))
                      month == read_u8(skip(c, 3))
                      day == read_u8(skip(c, 4))
                      f == Ws6in1Footer_deserialize(skip(c, 5))
                  IN  IF ~IsOk(f.res) THEN f
                      ELSE Ret(Ok(Ws6in1SetDate(day, month, year)), f.cur)

Ws6in1SetTime_deserialize_ReportsOpcode(c) ==
    IF ~check_remaining(c, CMD_LENGTH) THEN Ret(BufferTooSmall, c)
    ELSE LET type == read_u8(c)
             opcode == read_u8(skip(c, 1))
         IN  IF type # CMD_TYPE THEN Ret(UnsupportedType(type), skip(c, 1))
             ELSE IF opcode # SET_TIME_OPCODE
                  THEN Ret(UnsupportedOpcode(opcode), skip(c, 2))
             ELSE LET hour == read_u8(skip(c, 2))
                      min == read_u8(skip(c, 3))
                      sec == read_u8(skip(c, 4))
                      f == Ws6in1Footer_deserialize(skip(c, 5))
                  IN  IF ~IsOk(f.res) THEN f
                      ELSE Ret(Ok(Ws6in1SetTime(hour, min, sec)), f.cur)

Ws6in1SetTime_deserialize(c) ==
    IF ~check_remaining(c, CMD_LENGTH) THEN Ret(BufferTooSmall, c)
    ELSE LET type == read_u8(c)
             opcode == read_u8(skip(c, 1))
         IN  IF type # CMD_TYPE THEN Ret(UnsupportedType(type), skip(c, 1))
             ELSE IF opcode # SET_TIME_OPCODE
                  THEN Ret(UnsupportedType(type), skip(c, 2))
             ELSE LET hour == read_u8(skip(c, 2))
                      min == read_u8(skip(c, 3))
                      sec == read_u8(skip(c, 4))
                      f == Ws6in1Footer_deserialize(skip(c, 5))
                  IN  IF ~IsOk(f.res) THEN f
                      ELSE Ret(Ok(Ws6in1SetTime(hour, min, sec)), f.cur)

----------------------------------------------------------------------------
(* Any message: the dispatcher *)

NoMessage == [tag |-> "None"]
AnyDataFrame(x) == [tag |-> "DataFrame", x |-> x]
AnySetDate(x) == [tag |-> "SetDate", x |-> x]
AnySetTime(x) == [tag |-> "SetTime", x |-> x]

AnyWs6in1MessageBase_serialize(m, c, b) ==
    IF m.tag = "DataFrame" THEN Ws6in1DataFrameBase_serialize(m.x, c, b)
    ELSE IF m.tag = "SetDate" THEN Ws6in1SetDate_serialize(m.x, c)
    ELSE Ws6in1SetTime_serialize(m.x, c)

(* Wraps the value of a successful concrete decode in its variant. *)
Wrap(r, tag) ==
    IF IsOk(r.res) THEN Ret(Ok([tag |-> tag, x |-> r.res.val]), r.cur) ELSE r

AnyWs6in1MessageBase_deserialize_OpcodeAsType(c) ==
    IF ~check_remaining(c, 1) THEN Ret(BufferTooSmall, c)
    ELSE LET type == peek_u8(c, 0)
         IN  IF type = CMD_TYPE
             THEN IF ~check_remaining(c, CMD_LENGTH)
                  THEN Ret(BufferTooSmall, c)
                  ELSE LET opcode == peek_u8(c, 1)
                       IN  IF opcode = SET_DATE_OPCODE
                           THEN Wrap(Ws6in1SetDate_deserialize(c), "SetDate")
                           ELSE IF opcode = SET_TIME_OPCODE
                           THEN Wrap(Ws6in1SetTime_deserialize(c), "SetTime")
                           ELSE Ret(UnsupportedType(type), c)
             ELSE IF type = FRAME_TYPE
             THEN Wrap(Ws6in1DataFrameBase_deserialize(c), "DataFrame")
             ELSE Ret(UnsupportedType(type), c)

AnyWs6in1MessageBase_deserialize_Consuming(c) ==
    IF ~check_remaining(c, 1) THEN Ret(BufferTooSmall, c)
    ELSE LET type == read_u8(c)
         IN  IF type = CMD_TYPE
             THEN IF ~check_remaining(c, CMD_LENGTH)
                  THEN Ret(BufferTooSmall, skip(c, 1))
                  ELSE LET opcode == read_u8(skip(c, 1))
                       IN  IF opcode = SET_DATE_OPCODE
                           THEN Wrap(Ws6in1SetDate_deserialize(c), "SetDate")
                           ELSE IF opcode = SET_TIME_OPCODE
                           THEN Wrap(Ws6in1SetTime_deserialize(c), "SetTime")
                           ELSE Ret(UnsupportedOpcode(opcode), skip(c, 2))
             ELSE IF type = FRAME_TYPE
             THEN Wrap(Ws6in1DataFrameBase_deserialize(c), "DataFrame")
             ELSE Ret(UnsupportedType(type), skip(c, 1))

AnyWs6in1MessageBase_deserialize(c) ==
    IF ~check_remaining(c, 1) THEN Ret(BufferTooSmall, c)
    ELSE LET type == peek_u8(c, 0)
         IN  IF type = CMD_TYPE
             THEN IF ~check_remaining(c, CMD_LENGTH)
                  THEN Ret(BufferTooSmall, c)
                  ELSE LET opcode == peek_u8(c, 1)
                       IN  IF opcode = SET_DATE_OPCODE
                           THEN Wrap(Ws6in1SetDate_deserialize(c), "SetDate")
                           ELSE IF opcode = SET_TIME_OPCODE
                           THEN Wrap(Ws6in1SetTime_deserialize(c), "SetTime")
                           ELSE Ret(UnsupportedOpcode(opcode), c)
             ELSE IF type = FRAME_TYPE
             THEN Wrap(Ws6in1DataFrameBase_deserialize(c), "DataFrame")
             ELSE Ret(UnsupportedType(type), c)

----------------------------------------------------------------------------
(* Text: core::str::from_utf8 and str::split_whitespace *)

InRange(s, i, lo, hi) == i <= Len(s) /\ s[i] >= lo /\ s[i] <= hi

Cont(s, i) == InRange(s, i, 128, 191)

(* Length in bytes of the well-formed UTF-8 sequence that starts at s[i],
   or 0 when there is none (ill-formed or cut off by the end of s). *)
Utf8CharLen(s, i) ==
    LET b == s[i]
    IN  IF b <= 127 THEN 1
        ELSE IF b >= 194 /\ b <= 223
             THEN IF Cont(s, i + 1) THEN 2 ELSE 0
        ELSE IF b = 224
             THEN IF InRange(s, i + 1, 160, 191) /\ Cont(s, i + 2)
                  THEN 3 ELSE 0
        ELSE IF (b >= 225 /\ b <= 236) \/ b = 238 \/ b = 239
             THEN IF Cont(s, i + 1) /\ Cont(s, i + 2) THEN 3 ELSE 0
        ELSE IF b = 237
             THEN IF InRange(s, i + 1, 128, 159) /\ Cont(s, i + 2)
                  THEN 3 ELSE 0
        ELSE IF b = 240
             THEN IF InRange(s, i + 1, 144, 191) /\ Cont(s, i + 2)
                     /\ Cont(s, i + 3)
                  THEN 4 ELSE 0
        ELSE IF b >= 241 /\ b <= 243
             THEN IF Cont(s, i + 1) /\ Cont(s, i + 2) /\ Cont(s, i + 3)
                  THEN 4 ELSE 0
        ELSE IF b = 244
             THEN IF InRange(s, i + 1, 128, 143) /\ Cont(s, i + 2)
                     /\ Cont(s, i + 3)
                  THEN 4 ELSE 0
        ELSE 0

IsCont(b) == b >= 128 /\ b <= 191

(* The positions at which a left-to-right scan of s stops: a byte that
   should start a sequence and starts no well-formed one.  That is a
   non-continuation byte with no well-formed sequence, or a continuation
   byte right after a complete sequence (or at the very start). *)
Utf8Errors(s) ==
    {i \in 1..Len(s) :
        IF IsCont(s[i])
        THEN i = 1
             \/ \E j \in {i - 1, i - 2, i - 3, i - 4} :
                    j >= 1 /\ ~IsCont(s[j]) /\ Utf8CharLen(s, j) = i - j
        ELSE Utf8CharLen(s, i) = 0}

Minimum(S) == CHOOSE x \in S : \A y \in S : x <= y

(* Utf8Error::valid_up_to: the number of leading bytes that are valid
   UTF-8; Len(s) when all of s is. *)
valid_up_to(s) ==
    IF Utf8Errors(s) = {} THEN Len(s) ELSE Minimum(Utf8Errors(s)) - 1

from_utf8_OneBased(s) ==
    IF valid_up_to(s) = Len(s) THEN Ok(s)
    ELSE InvalidCharacter(valid_up_to(s) + 1)

from_utf8(s) ==
    IF valid_up_to(s) = Len(s) THEN Ok(s)
    ELSE InvalidCharacter(valid_up_to(s))

(* Length in bytes of the White_Space character that starts at s[i] of a
   valid UTF-8 string, or 0: U+0009..U+000D, U+0020, U+0085, U+00A0,
   U+1680, U+2000..U+200A, U+2028, U+2029, U+202F, U+205F, U+3000. *)
WhiteSpaceLen(s, i) ==
    LET b == s[i]
    IN  IF (b >= 9 /\ b <= 13) \/ b = 32 THEN 1
        ELSE IF b = 194 /\ i + 1 <= Len(s) /\ s[i + 1] \in {133, 160} THEN 2
        ELSE IF i + 2 > Len(s) THEN 0
        ELSE IF b = 225 /\ s[i + 1] = 154 /\ s[i + 2] = 128 THEN 3
        ELSE IF b = 226 /\ s[i + 1] = 128
                /\ ((s[i + 2] >= 128 /\ s[i + 2] <= 138)
                    \/ s[i + 2] \in {168, 169, 175})
             THEN 3
        ELSE IF b = 226 /\ s[i + 1] = 129 /\ s[i + 2] = 159 THEN 3
        ELSE IF b = 227 /\ s[i + 1] = 128 /\ s[i + 2] = 128 THEN 3
        ELSE 0

(* Whether byte i of s belongs to a White_Space character. *)
InWhiteSpace(s, i) ==
    \E j \in {i - 2, i - 1, i} : j >= 1 /\ WhiteSpaceLen(s, j) > i - j

(* The k-th smallest element of a finite set of integers *)
Nth(S, k) == CHOOSE i \in S : Cardinality({j \in S : j <= i}) = k

(* The tokens split_whitespace yields, in order: the maximal runs of
   non-whitespace characters, each from its first to its last byte. *)
split_whitespace(s) ==
    LET ws == [i \in 1..Len(s) |-> InWhiteSpace(s, i)]
        starts == {i \in 1..Len(s) : ~ws[i] /\ (i = 1 \/ ws[i - 1])}
        ends == {i \in 1..Len(s) : ~ws[i] /\ (i = Len(s) \/ ws[i + 1])}
    IN  [k \in 1..Cardinality(starts) |->
            SubSeq(s, Nth(starts, k), Nth(ends, k))]

----------------------------------------------------------------------------
(* Number tokens: str::parse::<u8>, ::<u16>, ::<f32> *)

None == [some |-> FALSE]
Some(v) == [some |-> TRUE, val |-> v]

IsDigit(b) == b >= 48 /\ b <= 57

AllDigits(s) == \A i \in 1..Len(s) : IsDigit(s[i])

(* Decimal value of a digit string, or -1 as soon as it exceeds max. *)
RECURSIVE Accumulate(_, _, _, _)
Accumulate(s, i, v, max) ==
    IF v > max THEN -1
    ELSE IF i > Len(s) THEN v
    ELSE Accumulate(s, i + 1, 10 * v + (s[i] - 48), max)

(* Unsigned integer: an optional '+', then one or more digits, no
   overflow.  A '-' is not a digit for an unsigned type. *)
ParseUnsigned(tok, max) ==
    LET ds == IF tok # <<>> /\ tok[1] = 43 THEN Tail(tok) ELSE tok
        v == Accumulate(ds, 1, 0, max)
    IN  IF ds = <<>> \/ ~AllDigits(ds) \/ v < 0 THEN None ELSE Some(v)

parse_u8(tok) == ParseUnsigned(tok, 255)

parse_u16(tok) == ParseUnsigned(tok, 65535)

(* Number of consecutive digits of s from position i on. *)
RECURSIVE DigitRun(_, _)
DigitRun(s, i) ==
    IF i > Len(s) \/ ~IsDigit(s[i]) THEN 0 ELSE 1 + DigitRun(s, i + 1)

RECURSIVE StripLeadingZeros(_)
StripLeadingZeros(ds) ==
    IF ds # <<>> /\ ds[1] = 48 THEN StripLeadingZeros(Tail(ds)) ELSE ds

RECURSIVE StripTrailingZeros(_)
StripTrailingZeros(ds) ==
    IF ds # <<>> /\ ds[Len(ds)] = 48
    THEN StripTrailingZeros(SubSeq(ds, 1, Len(ds) - 1)) ELSE ds

(* A float value is kept as the decimal number its token denotes, in
   canonical form: the significant digits without leading and trailing
   zeros and the position of the decimal point relative to the first
   digit.  Zero is [neg |-> FALSE, digits |-> <<>>, point |-> 0], since
   -0.0 = 0.0.  Rounding to the nearest f32 is not modelled. *)
Decimal(neg, ds, point) ==
    LET lead == Len(ds) - Len(StripLeadingZeros(ds))
        sig == StripTrailingZeros(StripLeadingZeros(ds))
    IN  IF sig = <<>> THEN [neg |-> FALSE, digits |-> <<>>, point |-> 0]
        ELSE [neg |-> neg, digits |-> sig, point |-> point - lead]

Lower(b) == IF b >= 65 /\ b <= 90 THEN b + 32 ELSE b

LowerAll(s) == [i \in 1..Len(s) |-> Lower(s[i])]

(* "nan", "inf", "infinity" in any letter case *)
SpecialFloat(s) ==
    LET l == LowerAll(s)
    IN  IF l = <<110, 97, 110>> THEN "nan"
        ELSE IF l = <<105, 110, 102>> THEN "inf"
        ELSE IF l = <<105, 110, 102, 105, 110, 105, 116, 121>> THEN "inf"
        ELSE ""

(* The exponent part from position i on: 'e' or 'E', an optional sign and
   one or more digits up to the end of the token; none at the end of the
   token.  Exponents are small enough for Accumulate in every token of
   the model. *)
ParseExponent(s, i) ==
    IF i > Len(s) THEN Some(0)
    ELSE IF s[i] \notin {101, 69} THEN None
    ELSE LET signed == i + 1 <= Len(s) /\ s[i + 1] \in {43, 45}
             j == IF signed THEN i + 2 ELSE i + 1
             n == DigitRun(s, j)
             v == Accumulate(SubSeq(s, j, Len(s)), 1, 0, 9999)
         IN  IF n = 0 \/ j + n <= Len(s) \/ v < 0 THEN None
             ELSE Some(IF signed /\ s[i + 1] = 45 THEN 0 - v ELSE v)

parse_f32(tok) ==
    LET signed == tok # <<>> /\ tok[1] \in {43, 45}
        neg == signed /\ tok[1] = 45
        s == IF signed THEN Tail(tok) ELSE tok
        n1 == DigitRun(s, 1)
        dot == n1 + 1 <= Len(s) /\ s[n1 + 1] = 46
        n2 == IF dot THEN DigitRun(s, n1 + 2) ELSE 0
        e == ParseExponent(s, n1 + (IF dot THEN 1 ELSE 0) + n2 + 1)
        ds == SubSeq(s, 1, n1) \o SubSeq(s, n1 + 2, n1 + 1 + n2)
    IN  IF s = <<>> THEN None
        ELSE IF n1 + n2 > 0 /\ e.some
             THEN Some(Decimal(neg, ds, n1 + e.val))
        ELSE IF SpecialFloat(s) # ""
             THEN Some([neg |-> neg, special |-> SpecialFloat(s)])
        ELSE None

----------------------------------------------------------------------------
(* Date and time tokens (crate time): "[year]-[month]-[day]" and
   "[hour]:[minute]" *)

TwoDigits(s, i) ==
    IF i + 1 <= Len(s) /\ IsDigit(s[i]) /\ IsDigit(s[i + 1])
    THEN (s[i] - 48) * 10 + (s[i + 1] - 48) ELSE -1

IsLeap(y) == y % 4 = 0 /\ (y % 100 # 0 \/ y % 400 = 0)

DaysInMonth(y, m) ==
    IF m = 2 THEN (IF IsLeap(y) THEN 29 ELSE 28)
    ELSE IF m \in {4, 6, 9, 11} THEN 30 ELSE 31

(* An optional sign, exactly four year digits, '-', two month digits,
   '-', two day digits, and the date must exist. *)
Date_parse(tok) ==
    LET signed == tok # <<>> /\ tok[1] \in {43, 45}
        s == IF signed THEN Tail(tok) ELSE tok
        yy == IF Len(s) = 10 /\ AllDigits(SubSeq(s, 1, 4))
              THEN Accumulate(SubSeq(s, 1, 4), 1, 0, 9999) ELSE -1
        y == IF signed /\ tok[1] = 45 THEN 0 - yy ELSE yy
        m == TwoDigits(s, 6)
        d == TwoDigits(s, 9)
    IN  IF Len(s) = 10 /\ yy >= 0 /\ s[5] = 45 /\ s[8] = 45
           /\ m >= 1 /\ m <= 12 /\ d >= 1 /\ d <= DaysInMonth(y, m)
        THEN Some([year |-> y, month |-> m, day |-> d])
        ELSE None

Time_parse_TwelveHour(tok) ==
    LET h == TwoDigits(tok, 1)
        m == TwoDigits(tok, 4)
    IN  IF Len(tok) = 5 /\ tok[3] = 58 /\ h >= 0 /\ h <= 23
           /\ m >= 0 /\ m <= 59
        THEN Some([hour |-> h % 12, minute |-> m, second |-> 0])
        ELSE None

Time_parse(tok) ==
    LET h == TwoDigits(tok, 1)
        m == TwoDigits(tok, 4)
    IN  IF Len(tok) = 5 /\ tok[3] = 58 /\ h >= 0 /\ h <= 23
           /\ m >= 0 /\ m <= 59
        THEN Some([hour |-> h, minute |-> m, second |-> 0])
        ELSE None

(* Days from 1970-01-01 to the given date of the proleptic Gregorian
   calendar. *)
DaysFromCivil(y, m, d) ==
    LET yy == IF m <= 2 THEN y - 1 ELSE y
        era == yy \div 400
        yoe == yy - era * 400
        mp == (m + 9) % 12
        doy == (153 * mp + 2) \div 5 + d - 1
        doe == yoe * 365 + yoe \div 4 - yoe \div 100 + doy
    IN  era * 146097 + doe - 719468

unix_timestamp_WithOffset(date, time) ==
    DaysFromCivil(date.year, date.month, date.day) * 86400
    + time.hour * 3600 + time.minute * 60 + time.second + 3600

(* PrimitiveDateTime::new(date, time).as_utc().unix_timestamp() *)
unix_timestamp(date, time) ==
    DaysFromCivil(date.year, date.month, date.day) * 86400
    + time.hour * 3600 + time.minute * 60 + time.second

----------------------------------------------------------------------------
(* Text telegram parser: TryFrom<&str> for Ws6in1Data *)

(* The token sequence try_from consumes, one entry per iter.next() call in
   program order.  "skip" tokens are read and dropped; a kind ending in
   "!" is mandatory (its parse error is mapped to InvalidToken), the
   others are optional (their parse error is dropped by .ok()). *)
TokenKinds_ExtraToken ==
    <<"skip", "date!", "time!", "f32!", "u8!",
      "f32", "u8", "f32", "f32", "f32", "f32", "u16", "skip", "skip",
      "u16!", "u16!", "f32", "f32", "skip">>
    \o [i \in 1..(2 * EXT_SENSOR_COUNT) |->
           IF i % 2 = 1 THEN "f32" ELSE "u8"]

TokenKinds ==
    <<"skip", "date!", "time!", "f32!", "u8!",
      "f32", "u8", "f32", "f32", "f32", "f32", "u16", "skip",
      "u16!", "u16!", "f32", "f32", "skip">>
    \o [i \in 1..(2 * EXT_SENSOR_COUNT) |->
           IF i % 2 = 1 THEN "f32" ELSE "u8"]

TokenCount == Len(TokenKinds)

Mandatory_All(kind) == kind # "skip"

Mandatory(kind) == kind \in {"date!", "time!", "f32!", "u8!", "u16!"}

ParseToken(kind, tok) ==
    IF kind = "skip" THEN Some(tok)
    ELSE IF kind = "date!" THEN Date_parse(tok)
    ELSE IF kind = "time!" THEN Time_parse(tok)
    ELSE IF kind \in {"f32", "f32!"} THEN parse_f32(tok)
    ELSE IF kind \in {"u8", "u8!"} THEN parse_u8(tok)
    ELSE parse_u16(tok)

TokenIterator_end_NoCheck(toks, tpos) == OkUnit

(* TokenIterator::end *)
TokenIterator_end(toks, tpos) ==
    IF tpos < Len(toks) THEN GarbageEnd(toks[tpos + 1][1]) ELSE OkUnit

AllSome_Never(vs) == FALSE

AllSome(vs) == \A i \in 1..Len(vs) : vs[i].some

BuildData_ExtUpTo(v) ==
    LET out == <<v[6], v[7], v[8], v[9], v[10], v[11], v[12], v[16], v[17]>>
    IN  [local_timestamp |-> unix_timestamp(v[2].val, v[3].val),
         indoor |-> [temperature |-> v[4].val, humidity |-> v[5].val,
                     baro_sea |-> v[14].val, baro_absolute |-> v[15].val],
         outdoor |->
             IF AllSome(out)
             THEN Some([temperature |-> v[6].val, humidity |-> v[7].val,
                        rain_day |-> v[8].val, rain_actual |-> v[9].val,
                        wind_actual |-> v[10].val, wind_gust |-> v[11].val,
                        wind_dir |-> v[12].val, uv_index |-> v[16].val,
                        dew_point |-> v[17].val])
             ELSE None,
         ext |-> [i \in 1..EXT_SENSOR_COUNT |->
                     LET t == v[17 + 2 * i]
                         h == v[18 + 2 * i]
                     IN  IF \A j \in 1..i :
                                v[17 + 2 * j].some /\ v[18 + 2 * j].some
                         THEN Some([temperature |-> t.val,
                                    humidity |-> h.val])
                         ELSE None]]

(* The record built from the parsed values v[1..TokenCount]. *)
BuildData(v) ==
    LET out == <<v[6], v[7], v[8], v[9], v[10], v[11], v[12], v[16], v[17]>>
    IN  [local_timestamp |-> unix_timestamp(v[2].val, v[3].val),
         indoor |-> [temperature |-> v[4].val, humidity |-> v[5].val,
                     baro_sea |-> v[14].val, baro_absolute |-> v[15].val],
         outdoor |->
             IF AllSome(out)
             THEN Some([temperature |-> v[6].val, humidity |-> v[7].val,
                        rain_day |-> v[8].val, rain_actual |-> v[9].val,
                        wind_actual |-> v[10].val, wind_gust |-> v[11].val,
                        wind_dir |-> v[12].val, uv_index |-> v[16].val,
                        dew_point |-> v[17].val])
             ELSE None,
         ext |-> [i \in 1..EXT_SENSOR_COUNT |->
                     LET t == v[17 + 2 * i]
                         h == v[18 + 2 * i]
                     IN  IF t.some /\ h.some
                         THEN Some([temperature |-> t.val,
                                    humidity |-> h.val])
                         ELSE None]]

RECURSIVE Consume_ZeroBasedPosition(_, _, _)
Consume_ZeroBasedPosition(toks, k, v) ==
    IF k > TokenCount
    THEN LET e == TokenIterator_end(toks, TokenCount)
         IN  IF IsOk(e) THEN Ok(BuildData(v)) ELSE e
    ELSE IF k > Len(toks) THEN UnexpectedEnd(k - 1)
    ELSE LET p == ParseToken(TokenKinds[k], toks[k])
         IN  IF Mandatory(TokenKinds[k]) /\ ~p.some
             THEN InvalidToken(k - 1)
             ELSE Consume_ZeroBasedPosition(toks, k + 1, Append(v, p))

RECURSIVE Consume_ReportsNext(_, _, _)
Consume_ReportsNext(toks, k, v) ==
    IF k > TokenCount
    THEN LET e == TokenIterator_end(toks, TokenCount)
         IN  IF IsOk(e) THEN Ok(BuildData(v)) ELSE e
    ELSE IF k > Len(toks) THEN UnexpectedEnd(k)
    ELSE LET p == ParseToken(TokenKinds[k], toks[k])
         IN  IF Mandatory(TokenKinds[k]) /\ ~p.some THEN InvalidToken(k)
             ELSE Consume_ReportsNext(toks, k + 1, Append(v, p))

(* The body of try_from from the k-th iter.next() on; v holds the values
   parsed so far.  TokenIterator::next fails with UnexpectedEnd carrying
   the number of tokens consumed so far; a mandatory token that does not
   parse fails with InvalidToken carrying iter.pos(), which already
   counts that token. *)
RECURSIVE Consume_CountsFirst(_, _, _)
Consume_CountsFirst(toks, k, v) ==
    IF k = 1 /\ Len(toks) < TokenCount THEN UnexpectedEnd(Len(toks))
    ELSE IF k > TokenCount
    THEN LET e == TokenIterator_end(toks, TokenCount)
         IN  IF IsOk(e) THEN Ok(BuildData(v)) ELSE e
    ELSE LET p == ParseToken(TokenKinds[k], toks[k])
         IN  IF Mandatory(TokenKinds[k]) /\ ~p.some THEN InvalidToken(k)
             ELSE Consume_CountsFirst(toks, k + 1, Append(v, p))

RECURSIVE Consume(_, _, _)
Consume(toks, k, v) ==
    IF k > TokenCount
    THEN LET e == TokenIterator_end(toks, TokenCount)
         IN  IF IsOk(e) THEN Ok(BuildData(v)) ELSE e
    ELSE IF k > Len(toks) THEN UnexpectedEnd(k - 1)
    ELSE LET p == ParseToken(TokenKinds[k], toks[k])
         IN  IF Mandatory(TokenKinds[k]) /\ ~p.some THEN InvalidToken(k)
             ELSE Consume(toks, k + 1, Append(v, p))

try_from(s) == Consume(split_whitespace(s), 1, <<>>)

----------------------------------------------------------------------------
(* Fragment assembler: Ws6in1AssemblerBase *)

Asm(fi, buf, r) == [frag_idx |-> fi, buffer |-> buf, res |-> r]

Container_append_Partial(kind, buf, data) ==
    IF kind = "heapless" /\ Len(buf) + Len(data) > MAX_MESSAGE_LEN
    THEN [res |-> MessageTooLarge(Len(buf) + Len(data)),
          buf |-> buf \o SubSeq(data, 1, MAX_MESSAGE_LEN - Len(buf))]
    ELSE [res |-> OkUnit, buf |-> buf \o data]

Container_append_Prepend(kind, buf, data) ==
    IF kind = "heapless" /\ Len(buf) + Len(data) > MAX_MESSAGE_LEN
    THEN [res |-> MessageTooLarge(Len(buf) + Len(data)), buf |-> buf]
    ELSE [res |-> OkUnit, buf |-> data \o buf]

Container_append_Unbounded(kind, buf, data) ==
    [res |-> OkUnit, buf |-> buf \o data]

(* Ws6in1Container::append: Vec grows, heapless::Vec<u8, 256> refuses
   what does not fit and is left as it was. *)
Container_append(kind, buf, data) ==
    IF kind = "heapless" /\ Len(buf) + Len(data) > MAX_MESSAGE_LEN
    THEN [res |-> MessageTooLarge(Len(buf) + Len(data)), buf |-> buf]
    ELSE [res |-> OkUnit, buf |-> buf \o data]

InSequence_ZeroBased(fi, pkt, b) == Ok(fi = pkt.hdr.frag_idx)

InSequence_AllowsGap(fi, pkt, b) == Ok(fi < pkt.hdr.frag_idx)

(* `self.frag_idx == packet.hdr.frag_idx - 1` in u8 arithmetic: with
   packet.hdr.frag_idx = 0 the subtraction panics under overflow checks
   and wraps to 255 without them. *)
InSequence(fi, pkt, b) ==
    IF pkt.hdr.frag_idx = 0
    THEN IF b = "debug" THEN Panic ELSE Ok(fi = 255)
    ELSE Ok(fi = pkt.hdr.frag_idx - 1)

(* `self.frag_idx += 1` in u8 arithmetic *)
Increment(fi, b) ==
    IF fi < 255 THEN Ok(fi + 1)
    ELSE IF b = "debug" THEN Panic ELSE Ok(0)

Discard_ReportsAfterReset(fi, buf) == Asm(0, <<>>, FragmentDiscarded(0))

Discard_KeepsCounter(fi, buf) == Asm(fi, <<>>, FragmentDiscarded(fi))

Discard_KeepsBuffer(fi, buf) == Asm(0, buf, FragmentDiscarded(fi))

(* The discard branch *)
Discard(fi, buf) == Asm(0, <<>>, FragmentDiscarded(fi))

(* from_utf8(&self.buffer)...?.try_into()? *)
Interpret(buf) ==
    LET u == from_utf8(buf)
    IN  IF IsOk(u) THEN try_from(u.val) ELSE u

Complete_NoReset(fi, buf) ==
    LET d == Interpret(buf)
    IN  IF IsOk(d) THEN Asm(fi, buf, Ok(Some(d.val))) ELSE Asm(fi, buf, d)

(* The completion branch, taken when the updated frag_idx equals the
   frame's frag_cnt: each `?` returns before the two reset statements. *)
Complete(fi, buf) ==
    LET d == Interpret(buf)
    IN  IF IsOk(d) THEN Asm(0, <<>>, Ok(Some(d.val))) ELSE Asm(fi, buf, d)

Accept_CompletesAtOrBeyond(fi, buf, pkt, kind, b) ==
    LET a == Container_append(kind, buf, pkt.payload.data)
        n == Increment(fi, b)
    IN  IF ~IsOk(a.res) THEN Asm(fi, a.buf, a.res)
        ELSE IF ~IsOk(n) THEN Asm(fi, a.buf, Panic)
        ELSE IF n.val >= pkt.hdr.frag_cnt THEN Complete(n.val, a.buf)
        ELSE Asm(n.val, a.buf, Ok(None))

(* The accept branch from the append on *)
Accept(fi, buf, pkt, kind, b) ==
    LET a == Container_append(kind, buf, pkt.payload.data)
        n == Increment(fi, b)
    IN  IF ~IsOk(a.res) THEN Asm(fi, a.buf, a.res)
        ELSE IF ~IsOk(n) THEN Asm(fi, a.buf, Panic)
        ELSE IF n.val = pkt.hdr.frag_cnt THEN Complete(n.val, a.buf)
        ELSE Asm(n.val, a.buf, Ok(None))

Ws6in1AssemblerBase_parse(fi, buf, pkt, kind, b) ==
    LET s == InSequence(fi, pkt, b)
    IN  IF ~IsOk(s) THEN Asm(fi, buf, Panic)
        ELSE IF s.val THEN Accept(fi, buf, pkt, kind, b)
        ELSE Discard(fi, buf)

----------------------------------------------------------------------------
(* Inputs of the model *)

(* "3 2020-01-17 17:30 20.4 49 6.0 60 0.0 0.0 0.0 0.0 129 " *)
Part1 ==
    <<51, 32, 50, 48, 50, 48, 45, 48, 49, 45, 49, 55, 32, 49, 55, 58, 51,
      48, 32, 50, 48, 46, 52, 32, 52, 57, 32, 54, 46, 48, 32, 54, 48, 32,
      48, 46, 48, 32, 48, 46, 48, 32, 48, 46, 48, 32, 48, 46, 48, 32, 49,
      50, 57, 32>>

(* "SE 1017 954 0 -1.2 --.- 27.3 57 33.4 40 --.- -- --.- -" *)
Part2 ==
    <<83, 69, 32, 49, 48, 49, 55, 32, 57, 53, 52, 32, 48, 32, 45, 49, 46,
      50, 32, 45, 45, 46, 45, 32, 50, 55, 46, 51, 32, 53, 55, 32, 51, 51,
      46, 52, 32, 52, 48, 32, 45, 45, 46, 45, 32, 45, 45, 32, 45, 45, 46,
      45, 32, 45>>

(* "- --.- -- --.- -- --.- --" *)
Part3 ==
    <<45, 32, 45, 45, 46, 45, 32, 45, 45, 32, 45, 45, 46, 45, 32, 45, 45,
      32, 45, 45, 46, 45, 32, 45, 45>>

(* "foo " *)
Foo == <<102, 111, 111, 32>>

(* "bar" *)
Bar == <<98, 97, 114>>

(* a byte that starts no UTF-8 sequence *)
NotText == <<255>>

(* 54 spaces *)
Blank == Fill(MAX_PAYLOAD_LEN, 32)

(* Frames whose frag_idx is at most MaxMixIdx carry any payload of the
   corpus; later ones only the payload of the scripted telegrams. *)
MaxMixIdx == 2

FragCnts == {0, 1, 2, 3, 4, 6}

(* The largest frag_idx among the frames of the model; the wire allows
   up to 15. *)
MaxFragIdx == 7

FragIdxs == 0..MaxFragIdx

Junk == {Foo, Bar, NotText}

Script(i) ==
    IF i = 1 THEN {Part1}
    ELSE IF i = 2 THEN {Part2}
    ELSE IF i = 3 THEN {Part3}
    ELSE IF i = 4 THEN {Blank, Bar}
    ELSE IF i = 6 THEN {Blank, <<32>>}
    ELSE {Blank}

PayloadsAt(i) ==
    Script(i) \cup (IF i >= 1 /\ i <= MaxMixIdx THEN Junk ELSE {})

Frame(cnt, idx, bytes) ==
    Ws6in1DataFrame(Ws6in1DataHeader(0, 0, cnt, idx), Ws6in1Payload(bytes))

(* Data frames as the wire delivers them: frag_cnt and frag_idx are four
   bits wide, the payload has at most 54 bytes. *)
Frames ==
    UNION {{Frame(c, i, p) : p \in PayloadsAt(i)} :
              c \in FragCnts, i \in FragIdxs}

DefaultFrame == Frame(0, 0, <<>>)

----------------------------------------------------------------------------
(* The assembler under an arbitrary sequence of frames *)

Idle == frag_idx = 0 /\ buffer = <<>>

Init ==
    /\ build \in {"debug", "release"}
    /\ storage \in {"std", "heapless"}
    /\ frag_idx = 0
    /\ buffer = <<>>
    /\ packet = DefaultFrame
    /\ result = NoResult
    /\ fed = <<>>
    /\ accepted_frames = <<>>
    /\ sent = <<>>
    /\ replay = <<>>
    /\ returned = NoResult
    /\ op = "new"
    /\ msg = NoMessage
    /\ wire = <<>>
    /\ pos = 0

(* The observer: a run starts with a frame numbered 1 given to an Idle
   assembler and goes on while each next frame has the next number and
   the same frag_cnt, up to frag_cnt frames.  Each entry holds a frame
   and what parse returned for it. *)
Fed(pkt, r) ==
    LET e == [frame |-> pkt, res |-> r]
    IN  IF Idle /\ pkt.hdr.frag_idx = 1 THEN <<e>>
        ELSE IF /\ fed # <<>>
                /\ Len(fed) < fed[1].frame.hdr.frag_cnt
                /\ pkt.hdr.frag_idx = Len(fed) + 1
                /\ pkt.hdr.frag_cnt = fed[1].frame.hdr.frag_cnt
             THEN Append(fed, e)
        ELSE <<>>

(* The observer of accepted frames: a frame is accepted when parse
   appended its payload, that is when parse returned neither
   FragmentDiscarded nor MessageTooLarge and did not panic.  The list
   keeps the frag_idx and the payload of each and starts again after a
   discard and after a returned record. *)
AcceptedFrames(pkt, r) ==
    LET e == [frag_idx |-> pkt.hdr.frag_idx, data |-> pkt.payload.data]
    IN  IF r.kind = "FragmentDiscarded" THEN <<>>
        ELSE IF r.kind \in {"MessageTooLarge", "Panic"}
             THEN accepted_frames
        ELSE IF r.kind = "Ok" THEN (IF r.val.some THEN <<>>
                                    ELSE Append(accepted_frames, e))
        ELSE Append(accepted_frames, e)

(* One call of Ws6in1AssemblerBase::parse.  A panic ends the program. *)
Parse(pkt) ==
    /\ result.kind # "Panic"
    /\ LET r == Ws6in1AssemblerBase_parse(frag_idx, buffer, pkt, storage,
                                          build)
       IN  /\ frag_idx' = r.frag_idx
           /\ buffer' = r.buffer
           /\ result' = r.res
           /\ fed' = Fed(pkt, r.res)
           /\ accepted_frames' = AcceptedFrames(pkt, r.res)
    /\ packet' = pkt
    /\ op' = "parse"
    /\ UNCHANGED <<build, storage, sent, replay, returned, msg, wire, pos>>

Next == \E pkt \in Frames : Parse(pkt)

Spec == Init /\ [][Next]_vars

----------------------------------------------------------------------------
(* Properties of the assembler *)

RECURSIVE Payloads(_)
Payloads(es) ==
    IF es = <<>> THEN <<>>
    ELSE es[1].frame.payload.data \o Payloads(Tail(es))

(* The observed run is complete: N frames numbered 1..N, each with
   frag_cnt = N, were fed in order to an assembler that was Idle. *)
RunComplete == fed # <<>> /\ Len(fed) = fed[1].frame.hdr.frag_cnt

RunOfValidTelegram == RunComplete /\ IsOk(Interpret(Payloads(fed)))

RunFits == storage = "std" \/ Len(Payloads(fed)) <= MAX_MESSAGE_LEN

RunResults ==
    /\ \A i \in 1..(Len(fed) - 1) : fed[i].res = Ok(None)
    /\ fed[Len(fed)].res = Ok(Some(Interpret(Payloads(fed)).val))

(* C1, as stated: from an Idle assembler the N in-order fragments of a
   valid telegram give Ok(None) N-1 times and then Ok(Some(record)),
   record being the parse of the concatenated payloads. *)
C1_AsStated == RunOfValidTelegram => RunResults

(* C1, amended: the same, for a telegram that fits the assembler's
   buffer (any telegram with the growable buffer, at most 256 bytes with
   the fixed-capacity one). *)
C1_OrderedAssembly == RunOfValidTelegram /\ RunFits => RunResults

C1_Witness ==
    /\ RunOfValidTelegram
    /\ Len(fed) >= 3
    /\ storage = "heapless"
    /\ result.kind = "Ok" /\ result.val.some

ParseStep == op' = "parse" /\ result.kind # "Panic"

InOrder == packet'.hdr.frag_idx = frag_idx + 1

Joined == buffer \o packet'.payload.data

(* The step took the frame: its payload was appended and the counter
   went up by one; a completed telegram that parsed shows as its record
   and the reset that follows it. *)
Accepted ==
    \/ /\ frag_idx' = frag_idx + 1
       /\ buffer' = Joined
       /\ result'.kind \notin {"FragmentDiscarded", "MessageTooLarge",
                               "Panic"}
    \/ /\ frag_idx' = 0
       /\ buffer' = <<>>
       /\ result'.kind = "Ok"
       /\ result'.val.some
       /\ IsOk(Interpret(Joined))
       /\ result'.val.val = Interpret(Joined).val

Rejected ==
    /\ result'.kind = "FragmentDiscarded"
    /\ frag_idx' = 0
    /\ buffer' = <<>>

Refused ==
    /\ result' = MessageTooLarge(Len(Joined))
    /\ frag_idx' = frag_idx
    /\ buffer' = buffer

Fits == storage = "std" \/ Len(Joined) <= MAX_MESSAGE_LEN

(* C2, as stated: a frame with frag_idx in 1..15 is accepted if and only
   if its frag_idx is the stored frag_idx + 1, and is otherwise rejected
   with FragmentDiscarded, none of its payload kept. *)
C2_AsStated ==
    [][ParseStep /\ packet'.hdr.frag_idx >= 1
       => IF InOrder THEN Accepted ELSE ~Accepted /\ Rejected]_vars

(* C2, amended: a frame with frag_idx in 1..15 is accepted if and only if
   its frag_idx is the stored frag_idx + 1 and its payload fits the
   buffer; a frame with another frag_idx is rejected with
   FragmentDiscarded and none of its payload is kept; an in-order frame
   that does not fit (fixed-capacity buffer only) is refused with
   MessageTooLarge and none of its payload is kept. *)
C2_StrictSequencing ==
    [][ParseStep /\ packet'.hdr.frag_idx >= 1
       => /\ Accepted <=> (InOrder /\ Fits)
          /\ ~InOrder => Rejected
          /\ InOrder /\ ~Fits => Refused]_vars

C2_Witness ==
    /\ op = "parse"
    /\ storage = "heapless"
    /\ result.kind = "MessageTooLarge"
    /\ frag_idx >= 4

(* C3: a rejected frame yields FragmentDiscarded carrying the frag_idx
   that was stored before the call, whatever the frame's own frag_idx,
   and leaves the assembler Idle. *)
C3_DiscardReportsStoredIndex ==
    [][ParseStep
       => /\ packet'.hdr.frag_idx >= 1 /\ ~InOrder
             => result' = FragmentDiscarded(frag_idx)
          /\ result'.kind = "FragmentDiscarded"
             => /\ result'.idx = frag_idx
                /\ frag_idx' = 0
                /\ buffer' = <<>>]_vars

C3_Witness ==
    /\ op = "parse"
    /\ result.kind = "FragmentDiscarded"
    /\ result.idx >= 2
    /\ packet.hdr.frag_idx >= 1
    /\ packet.hdr.frag_idx # result.idx
    /\ Idle

AcceptedFresh ==
    /\ result'.kind \notin {"FragmentDiscarded", "MessageTooLarge", "Panic"}
    /\ frag_idx' = 1
    /\ buffer' = packet'.payload.data

(* C4: a frame numbered 1 given right after a frame numbered 1 that went
   to an Idle assembler fails with FragmentDiscarded{idx: 1}; and right
   after any FragmentDiscarded a frame is accepted, as the first fragment
   of a fresh message, if and only if its frag_idx is 1. *)
C4_DiscardThenSelfHeal ==
    [][ParseStep
       => /\ Len(fed) = 1 /\ packet'.hdr.frag_idx = 1
             => result' = FragmentDiscarded(1)
          /\ result.kind = "FragmentDiscarded"
             => (AcceptedFresh <=> packet'.hdr.frag_idx = 1)]_vars

C4_Witness ==
    /\ op = "parse"
    /\ result = FragmentDiscarded(1)
    /\ packet.hdr.frag_idx = 1
    /\ Idle

InterpretationErrors ==
    {"InvalidCharacter", "UnexpectedEnd", "InvalidToken", "GarbageEnd"}

(* C5: when an accepted fragment completes a message, the assembler is
   Idle when parse returns, also when the assembled bytes are not valid
   text or do not parse. *)
C5_IdleAfterFailedInterpretation ==
    op = "parse" /\ result.kind \in InterpretationErrors => Idle

(* C6: whenever parse returns Ok(Some(record)) the assembler is Idle. *)
C6_IdleAfterRecord ==
    op = "parse" /\ result.kind = "Ok" /\ result.val.some => Idle

C6_Witness ==
    /\ op = "parse"
    /\ result.kind = "Ok" /\ result.val.some
    /\ Idle

----------------------------------------------------------------------------
(* The codec: values are serialized into a fresh buffer, buffers are
   altered as a transport may alter them, and buffers are deserialized. *)

(* Buffers are up to MaxExtra bytes shorter or longer than the frame. *)
MaxExtra == 2

U16Pairs == {<<0, 0>>, <<258, 65535>>, <<65535, 1>>}

Nibbles == 0..15

ByteSamples == {0, 9, 253, 255}

CodecPayloads == {<<>>, Foo, NotText, Part1, Fill(MAX_PAYLOAD_LEN, 255)}

(* Payloads beyond the maximum, which only the growable container can
   hold *)
OversizePayloads == {Fill(n, 65) : n \in {55, 57, 58, 255, 256, 300}}

DataFrames ==
    {Ws6in1DataFrame(Ws6in1DataHeader(258, 65535, fc, fi),
                     Ws6in1Payload(Foo)) : fc \in Nibbles, fi \in Nibbles}
    \cup {Ws6in1DataFrame(Ws6in1DataHeader(w[1], w[2], 3, 1),
                          Ws6in1Payload(p)) :
             w \in U16Pairs, p \in CodecPayloads \cup OversizePayloads}

SetDates ==
    {Ws6in1SetDate(d, m, y) :
        d \in ByteSamples, m \in ByteSamples, y \in ByteSamples}

SetTimes ==
    {Ws6in1SetTime(h, m, x) :
        h \in ByteSamples, m \in ByteSamples, x \in ByteSamples}

Messages ==
    {AnyDataFrame(x) : x \in DataFrames}
    \cup {AnySetDate(x) : x \in SetDates}
    \cup {AnySetTime(x) : x \in SetTimes}

WireLength(m) == IF m.tag = "DataFrame" THEN FRAME_LENGTH ELSE CMD_LENGTH

BufferSizes(m) ==
    (WireLength(m) - MaxExtra)..(WireLength(m) + MaxExtra) \cup {0, 512}

(* The value can be built: a fixed-capacity payload holds 54 bytes. *)
Constructible(m) ==
    IF m.tag = "DataFrame" /\ storage = "heapless"
    THEN Len(m.x.payload.data) <= MAX_PAYLOAD_LEN
    ELSE TRUE

(* The byte a destination buffer holds before anything is written; the
   codec never reads it, so one value stands for all. *)
Stale == 170

(* m.serialize(&mut Cursor::new(&mut buffer[..])) on a fresh buffer of
   n bytes, through AnyWs6in1MessageBase or the concrete type.  The
   codec keeps no state between calls, so every run starts anew. *)
Serialize(m, n) ==
    /\ op = "new"
    /\ Constructible(m)
    /\ LET r == AnyWs6in1MessageBase_serialize(m, Cursor(Fill(n, Stale)),
                                               build)
       IN  /\ result' = r.res
           /\ wire' = r.cur.buf
           /\ pos' = r.cur.pos
    /\ msg' = m
    /\ op' = "serialize"
    /\ UNCHANGED <<build, storage, frag_idx, buffer, packet, fed,
                   accepted_frames, sent, replay, returned>>

TamperOffsets == {0, 1, 6}

TamperValues == {0, 54, 55, 255}

(* The buffer that was written reaches the reader with one byte
   changed. *)
Tamper(off, v) ==
    /\ op = "serialize"
    /\ IsOk(result)
    /\ pos = Len(wire)
    /\ wire[off + 1] # v
    /\ wire' = [wire EXCEPT ![off + 1] = v]
    /\ msg' = NoMessage
    /\ op' = "tamper"
    /\ UNCHANGED <<build, storage, frag_idx, buffer, packet, fed,
                   accepted_frames, sent, replay, returned, result, pos>>

RawTypes == {FRAME_TYPE, CMD_TYPE, 0}

RawSeconds == {SET_DATE_OPCODE, SET_TIME_OPCODE, 0, 10}

RawLengths == {0, MAX_PAYLOAD_LEN, MAX_PAYLOAD_LEN + 1}

RawChecksums == {0, 171}

RawMagics == {MAGIC, CMD_TYPE, 0}

(* 64 bytes laid out as a data frame, followed by extra bytes *)
RawData(type, second, len, crc, magic, extra) ==
    <<type, second, 2, 0, 3, 49, len>> \o Fill(MAX_PAYLOAD_LEN, 7)
        \o <<crc, crc, magic>> \o Zeros(extra)

(* 8 bytes laid out as a command, followed by extra bytes *)
RawCmd(type, second, crc, magic, extra) ==
    <<type, second, 1, 2, 3, crc, crc, magic>> \o Zeros(extra)

(* Buffers that end before the frame does *)
Truncated ==
    {SubSeq(RawCmd(CMD_TYPE, SET_DATE_OPCODE, 0, MAGIC, 0), 1, n) :
        n \in 0..(CMD_LENGTH - 1)}
    \cup {SubSeq(RawData(FRAME_TYPE, 0, 0, 0, MAGIC, 0), 1, FRAME_LENGTH - k) :
             k \in 1..MaxExtra}
    \cup {<<0>>}

RawBuffers ==
    {RawData(t, b, l, x, m, e) :
        t \in RawTypes, b \in RawSeconds, l \in RawLengths,
        x \in RawChecksums, m \in RawMagics, e \in 0..MaxExtra}
    \cup {RawCmd(t, b, x, m, e) :
             t \in RawTypes, b \in RawSeconds, x \in RawChecksums,
             m \in RawMagics, e \in 0..MaxExtra}
    \cup Truncated

(* Bytes arrive from the device; nothing was serialized here. *)
Receive(bytes) ==
    /\ op = "new"
    /\ wire' = bytes
    /\ pos' = 0
    /\ msg' = NoMessage
    /\ op' = "receive"
    /\ UNCHANGED <<build, storage, frag_idx, buffer, packet, fed,
                   accepted_frames, sent, replay, returned, result>>

Decode(dec, c) ==
    IF dec = "data" THEN Ws6in1DataFrameBase_deserialize(c)
    ELSE IF dec = "set_date" THEN Ws6in1SetDate_deserialize(c)
    ELSE IF dec = "set_time" THEN Ws6in1SetTime_deserialize(c)
    ELSE AnyWs6in1MessageBase_deserialize(c)

Decoders == {"data", "set_date", "set_time", "any"}

(* T::deserialize(&mut Cursor::new(&buffer[..])) on the whole buffer *)
Deserialize(dec) ==
    /\ \/ op \in {"serialize", "tamper"} /\ IsOk(result)
       \/ op = "receive"
    /\ LET r == Decode(dec, Cursor(wire))
       IN  /\ result' = r.res
           /\ pos' = r.cur.pos
    /\ op' = dec
    /\ UNCHANGED <<build, storage, frag_idx, buffer, packet, fed,
                   accepted_frames, sent, replay, returned, msg, wire>>

NextCodec ==
    \/ \E m \in Messages : \E n \in BufferSizes(m) : Serialize(m, n)
    \/ \E off \in TamperOffsets, v \in TamperValues : Tamper(off, v)
    \/ \E bytes \in RawBuffers : Receive(bytes)
    \/ \E dec \in Decoders : Deserialize(dec)

SpecCodec == Init /\ [][NextCodec]_vars

----------------------------------------------------------------------------
(* Properties of the codec *)

ValidDataFrame ==
    /\ msg.tag = "DataFrame"
    /\ Len(msg.x.payload.data) <= MAX_PAYLOAD_LEN

(* C7: a data frame with 16-bit item fields, 4-bit fragment fields and
   a payload of 0..54 bytes, serialized into a 64-byte buffer and
   deserialized from it, comes back equal, and the cursor stands at 64
   after each of the two steps. *)
C7_DataFrameRoundTrip ==
    ValidDataFrame /\ Len(wire) = FRAME_LENGTH =>
        /\ op = "serialize" => IsOk(result) /\ pos = FRAME_LENGTH
        /\ op = "data" => result = Ok(msg.x) /\ pos = FRAME_LENGTH

C7_Witness ==
    /\ op = "data"
    /\ ValidDataFrame
    /\ Len(wire) = FRAME_LENGTH
    /\ msg.x.hdr.frag_cnt = 15
    /\ msg.x.hdr.frag_idx = 9
    /\ msg.x.hdr.item_cnt = 258
    /\ result = Ok(msg.x)
    /\ pos = FRAME_LENGTH

(* C8: a SetDate or SetTime command, serialized into an 8-byte buffer
   and deserialized from it, comes back equal, with the command's own
   codec as well as through the dispatcher. *)
C8_CommandRoundTrip ==
    msg.tag \in {"SetDate", "SetTime"} /\ Len(wire) = CMD_LENGTH =>
        /\ op = "serialize" => IsOk(result) /\ pos = CMD_LENGTH
        /\ op = "set_date" /\ msg.tag = "SetDate" => result = Ok(msg.x)
        /\ op = "set_time" /\ msg.tag = "SetTime" => result = Ok(msg.x)
        /\ op = "any" => result = Ok(msg)

C8_Witness ==
    /\ op = "set_date"
    /\ msg = AnySetDate(Ws6in1SetDate(9, 253, 255))
    /\ Len(wire) = CMD_LENGTH
    /\ result = Ok(msg.x)

(* The bytes of a frame's buffer behind the 55-byte payload section *)
BehindPayload == (1 + HEADER_LENGTH + PAYLOAD_LENGTH + 1)..Len(wire)

(* C9: serializing a payload of more than 54 bytes returns
   PayloadTooLarge, does not trap and writes nothing behind the
   55-byte payload section. *)
C9_OversizePayloadRefused ==
    (/\ op = "serialize"
     /\ msg.tag = "DataFrame"
     /\ Len(msg.x.payload.data) > MAX_PAYLOAD_LEN
     /\ Len(wire) >= FRAME_LENGTH) =>
        /\ result = PayloadTooLarge(Len(msg.x.payload.data))
        /\ \A i \in BehindPayload : wire[i] = Stale

(* C10: deserializing a 64-byte buffer with a valid type tag and footer
   does not trap, whatever the payload length byte, and a frame it
   returns has a payload of 0..54 bytes. *)
C10_LengthByteChecked ==
    (/\ op \in {"data", "any"}
     /\ Len(wire) = FRAME_LENGTH
     /\ wire[1] = FRAME_TYPE
     /\ wire[FRAME_LENGTH] = MAGIC) =>
        /\ result.kind # "Panic"
        /\ op = "data" /\ IsOk(result) =>
               Len(result.val.payload.data) \in 0..MAX_PAYLOAD_LEN

(* C11: a valid data frame is serialized as exactly 64 bytes: the type
   0xFE, item_cnt and item_idx big-endian, frag_cnt * 16 + frag_idx, the
   payload length L, the L payload bytes, zeros up to byte 60, two zero
   checksum bytes and the magic 0xFD. *)
C11_DataFrameLayout ==
    op = "serialize" /\ ValidDataFrame /\ Len(wire) >= FRAME_LENGTH =>
        LET x == msg.x
            L == Len(x.payload.data)
        IN  /\ IsOk(result)
            /\ pos = 64
            /\ wire[1] = 254
            /\ wire[2] = x.hdr.item_cnt \div 256
            /\ wire[3] = x.hdr.item_cnt % 256
            /\ wire[4] = x.hdr.item_idx \div 256
            /\ wire[5] = x.hdr.item_idx % 256
            /\ wire[6] = x.hdr.frag_cnt * 16 + x.hdr.frag_idx
            /\ wire[7] = L
            /\ \A i \in 1..L : wire[7 + i] = x.payload.data[i]
            /\ \A i \in (8 + L)..61 : wire[i] = 0
            /\ wire[62] = 0
            /\ wire[63] = 0
            /\ wire[64] = 253
            /\ \A i \in 65..Len(wire) : wire[i] = Stale

C11_Witness ==
    /\ op = "serialize"
    /\ ValidDataFrame
    /\ Len(wire) = FRAME_LENGTH + 1
    /\ IsOk(result)
    /\ msg.x.hdr.item_cnt = 258
    /\ SubSeq(wire, 1, 11) = <<254, 1, 2, 255, 255, 249, 4, 102, 111, 111, 32>>
    /\ wire[12] = 0

(* C12: a command is serialized as exactly 8 bytes: 0xFC, the opcode
   (0x08 SetDate, 0x09 SetTime), the parameters year, month, day or
   hour, minute, second, two zero checksum bytes and 0xFD. *)
C12_CommandLayout ==
    (/\ op = "serialize"
     /\ msg.tag \in {"SetDate", "SetTime"}
     /\ Len(wire) >= CMD_LENGTH) =>
        /\ IsOk(result)
        /\ pos = 8
        /\ \A i \in 9..Len(wire) : wire[i] = Stale
        /\ SubSeq(wire, 1, 8) =
               IF msg.tag = "SetDate"
               THEN <<252, 8, msg.x.year, msg.x.month, msg.x.day, 0, 0, 253>>
               ELSE <<252, 9, msg.x.hour, msg.x.min, msg.x.sec, 0, 0, 253>>

C12_Witness ==
    /\ op = "serialize"
    /\ msg = AnySetDate(Ws6in1SetDate(9, 253, 255))
    /\ wire = <<252, 8, 255, 253, 9, 0, 0, 253>>
    /\ pos = 8

(* The length of the frame the decoder named by op expects in wire *)
ExpectedLength ==
    IF op = "data" THEN FRAME_LENGTH
    ELSE IF op \in {"set_date", "set_time"} THEN CMD_LENGTH
    ELSE IF Len(wire) >= 1 /\ wire[1] = CMD_TYPE THEN CMD_LENGTH
    ELSE FRAME_LENGTH

(* The first ExpectedLength bytes of wire *)
FramePart == SubSeq(wire, 1, ExpectedLength)

(* C13: a buffer holding a valid frame followed by k >= 1 more bytes is
   refused with BufferNotConsumed{trailing: k}. *)
C13_ExactFrameSize ==
    (/\ op \in Decoders
     /\ Len(wire) > ExpectedLength
     /\ IsOk(Decode(op, Cursor(FramePart)).res)) =>
        result = BufferNotConsumed(Len(wire) - ExpectedLength)

C13_Witness ==
    /\ op = "data"
    /\ Len(wire) = FRAME_LENGTH + 2
    /\ msg.tag = "DataFrame"
    /\ result = BufferNotConsumed(2)

(* C14: a frame that is valid but for its last byte, which is not 0xFD,
   is refused with InvalidMagic carrying that byte. *)
C14_InvalidMagic ==
    (/\ op \in Decoders
     /\ Len(wire) >= ExpectedLength
     /\ wire[ExpectedLength] # 253
     /\ IsOk(Decode(op, Cursor([FramePart EXCEPT ![ExpectedLength] = 253]
                              )).res)) =>
        result = InvalidMagic(wire[ExpectedLength])

C14_Witness ==
    /\ op = "data"
    /\ Len(wire) = FRAME_LENGTH
    /\ wire[62] = 171
    /\ wire[64] = 252
    /\ result = InvalidMagic(252)

(* C15: a command decoder given a command buffer with another opcode
   than its own fails with UnsupportedType carrying the type byte 0xFC. *)
C15_OpcodeMismatchIsUnsupportedType ==
    (/\ op \in {"set_date", "set_time"}
     /\ Len(wire) >= CMD_LENGTH
     /\ wire[1] = 252
     /\ wire[2] # (IF op = "set_date" THEN 8 ELSE 9)) =>
        result = UnsupportedType(252)

C15_Witness ==
    /\ op = "set_time"
    /\ msg.tag = "SetDate"
    /\ wire[2] = 8
    /\ result = UnsupportedType(252)

(* C16: the dispatcher refuses an unknown first byte with
   UnsupportedType, an unknown opcode of a command with
   UnsupportedOpcode, and otherwise returns what the decoder selected
   by these bytes returns. *)
C16_ClassificationByLookahead ==
    op = "any" /\ Len(wire) >= 1 =>
        /\ wire[1] \notin {252, 254} => result = UnsupportedType(wire[1])
        /\ wire[1] = 252 /\ Len(wire) >= 8 /\ wire[2] \notin {8, 9} =>
               result = UnsupportedOpcode(wire[2])
        /\ wire[1] = 252 /\ Len(wire) >= 8 /\ wire[2] = 8 =>
               result = Wrap(Ws6in1SetDate_deserialize(Cursor(wire)),
                             "SetDate").res
        /\ wire[1] = 252 /\ Len(wire) >= 8 /\ wire[2] = 9 =>
               result = Wrap(Ws6in1SetTime_deserialize(Cursor(wire)),
                             "SetTime").res
        /\ wire[1] = 254 =>
               result = Wrap(Ws6in1DataFrameBase_deserialize(Cursor(wire)),
                             "DataFrame").res

C16_Witness ==
    /\ op = "any"
    /\ Len(wire) = CMD_LENGTH
    /\ wire[1] = 252
    /\ result = UnsupportedOpcode(10)

(* The bytes the dispatcher looks at select a concrete decoder. *)
Selected ==
    /\ Len(wire) >= 1
    /\ \/ wire[1] = FRAME_TYPE
       \/ /\ wire[1] = CMD_TYPE
          /\ Len(wire) >= CMD_LENGTH
          /\ wire[2] \in {SET_DATE_OPCODE, SET_TIME_OPCODE}

(* C17: when the dispatcher fails while classifying (UnsupportedType,
   UnsupportedOpcode, or BufferTooSmall before a decoder is selected),
   the cursor is where it was before the call. *)
C17_ClassificationKeepsPosition ==
    op = "any" =>
        /\ result.kind \in {"UnsupportedType", "UnsupportedOpcode"} => pos = 0
        /\ ~Selected =>
               /\ pos = 0
               /\ result.kind \in {"BufferTooSmall", "UnsupportedType",
                                   "UnsupportedOpcode"}

C17_Witness ==
    /\ op = "any"
    /\ Len(wire) = CMD_LENGTH - 1
    /\ wire[1] = 252
    /\ result = BufferTooSmall
    /\ pos = 0

(* C18: serializing into a buffer shorter than the frame fails with
   BufferTooSmall, writes nothing and leaves the cursor in place. *)
C18_NoPartialWrite ==
    (/\ op = "serialize"
     /\ Len(wire) < WireLength(msg)) =>
        /\ result = BufferTooSmall
        /\ pos = 0
        /\ \A i \in 1..Len(wire) : wire[i] = Stale

C18_Witness ==
    /\ op = "serialize"
    /\ msg.tag = "DataFrame"
    /\ Len(wire) = FRAME_LENGTH - 1
    /\ result = BufferTooSmall
    /\ pos = 0

----------------------------------------------------------------------------
(* The telegram parser on its own: a text is handed to try_from. *)

(* The tokens of the telegram of the assembler's test *)
BaseTokens == split_whitespace(Part1 \o Part2 \o Part3)

(* Tokens no numeric type, date or time accepts: the device's two
   placeholders and a word *)
BadTokens == {<<45, 45, 46, 45>>, <<45, 45>>, <<120, 49>>}

(* Telegrams carry up to MaxGarbage tokens more than the parser reads. *)
MaxGarbage == 2

(* base with its i-th token replaced by bad (i = 0: nothing replaced),
   followed by MaxGarbage tokens *)
Replaced(i, bad) ==
    [k \in 1..(Len(BaseTokens) + MaxGarbage) |->
        IF k = i THEN bad
        ELSE IF k > Len(BaseTokens) THEN <<71, 48 + (k % 10)>>
        ELSE BaseTokens[k]]

(* base with the tokens at the positions ps replaced by "--", followed
   by MaxGarbage tokens *)
ReplacedAt(ps) ==
    [k \in 1..(Len(BaseTokens) + MaxGarbage) |->
        IF k \in ps THEN <<45, 45>> ELSE Replaced(0, <<>>)[k]]

(* Pairs of positions whose tokens must parse: the date, the time, the
   indoor temperature and humidity, the two pressures *)
MandatoryPairs ==
    {ps \in SUBSET {2, 3, 4, 5, 14, 15} : Cardinality(ps) = 2}

RECURSIVE Join(_, _, _)
Join(toks, n, sep) ==
    IF n = 0 THEN <<>> ELSE Join(toks, n - 1, sep) \o toks[n] \o sep

Digits2(n) == <<48 + (n \div 10), 48 + (n % 10)>>

Digits4(n) == Digits2(n \div 100) \o Digits2(n % 100)

(* Date tokens, among them days no month has *)
DateTokens ==
    {Digits4(y) \o <<45>> \o Digits2(m) \o <<45>> \o Digits2(d) :
        y \in {1902, 1969, 1970, 2000, 2020, 2021, 2037},
        m \in {1, 2, 12}, d \in {1, 17, 29, 31}}

(* Time tokens, among them hour 24 and minute 60 *)
TimeTokens ==
    {Digits2(h) \o <<58>> \o Digits2(m) :
        h \in {0, 17, 23, 24}, m \in {0, 30, 59, 60}}

(* base with its date and time tokens replaced *)
Dated(date, time) ==
    [k \in 1..Len(BaseTokens) |->
        IF k = 2 THEN date ELSE IF k = 3 THEN time ELSE BaseTokens[k]]

(* The texts handed to the parser: the first n tokens of a telegram, each
   followed by a separator, and whole telegrams of other dates (at 17:30
   and at 23:59) and of other times *)
Telegrams ==
    {Join(Dated(date, time), Len(BaseTokens), <<32>>) :
        date \in DateTokens,
        time \in {BaseTokens[3], Digits2(23) \o <<58>> \o Digits2(59)}}
    \cup {Join(Dated(date, time), Len(BaseTokens), <<32>>) :
              date \in {BaseTokens[2]}, time \in TimeTokens}
    \cup {Join(ReplacedAt(ps), n, <<32>>) :
              ps \in MandatoryPairs,
              n \in {13, Len(BaseTokens), Len(BaseTokens) + 1}}
    \cup {Join(Replaced(i, bad), n, <<32>>) :
        i \in 0..Len(BaseTokens), bad \in BadTokens,
        n \in 0..(Len(BaseTokens) + MaxGarbage)}
    \cup {Join(Replaced(0, <<>>), n, <<9, 32, 13, 10>>) :
             n \in 0..(Len(BaseTokens) + MaxGarbage)}
    \cup {<<>>}

(* Ws6in1Data::try_from(text) *)
TryFrom(text) ==
    /\ op = "new"
    /\ wire' = text
    /\ result' = try_from(text)
    /\ op' = "try_from"
    /\ UNCHANGED <<build, storage, frag_idx, buffer, packet, fed,
                   accepted_frames, sent, replay, returned, msg, pos>>

NextParser == \E text \in Telegrams : TryFrom(text)

SpecParser == Init /\ [][NextParser]_vars

----------------------------------------------------------------------------
(* Properties of the telegram parser *)

(* The tokens of the text that was parsed *)
Tokens == split_whitespace(wire)

(* Every token among the first n at one of the positions ps parses as
   the type read at that position. *)
ParseAt(toks, ps, n) ==
    \A k \in ps : k <= n => ParseToken(TokenKinds[k], toks[k]).some

(* C19 as stated: 33 tokens are read, baro_sea is token 15 and
   baro_absolute token 16; a telegram parses only if it has exactly 33
   tokens, and an unparsable barometric token reports 15 or 16. *)
C19_AsStated ==
    op = "try_from" =>
        LET Toks == Tokens IN
        /\ IsOk(result) => Len(Toks) = 33
        /\ result.kind = "InvalidToken" /\ result.tpos > 5 =>
               result.tpos \in {15, 16}

(* C19: 32 tokens are read: history, date, time, indoor temperature and
   humidity are tokens 1-5, baro_sea is token 14, baro_absolute 15,
   uv_index 16, dew_point 17, token 18 is dropped and the seven
   extra-sensor pairs are tokens 19-32; a telegram parses only if it has
   exactly 32 tokens, and an unparsable baro_sea or baro_absolute
   reports position 14 or 15. *)
C19_FixedTokenSequence ==
    op = "try_from" =>
        LET Toks == Tokens IN
        /\ IsOk(result) =>
               /\ Len(Toks) = 32
               /\ result.val.local_timestamp =
                      unix_timestamp(Date_parse(Toks[2]).val,
                                     Time_parse(Toks[3]).val)
               /\ result.val.indoor =
                      [temperature |-> parse_f32(Toks[4]).val,
                       humidity |-> parse_u8(Toks[5]).val,
                       baro_sea |-> parse_u16(Toks[14]).val,
                       baro_absolute |-> parse_u16(Toks[15]).val]
               /\ result.val.outdoor.some =>
                      /\ result.val.outdoor.val.uv_index =
                             parse_f32(Toks[16]).val
                      /\ result.val.outdoor.val.dew_point =
                             parse_f32(Toks[17]).val
               /\ \A i \in 1..7 :
                      result.val.ext[i] =
                          IF /\ parse_f32(Toks[17 + 2 * i]).some
                             /\ parse_u8(Toks[18 + 2 * i]).some
                          THEN Some([temperature |->
                                         parse_f32(Toks[17 + 2 * i]).val,
                                     humidity |->
                                         parse_u8(Toks[18 + 2 * i]).val])
                          ELSE None
        /\ Len(Toks) = 32 /\ ParseAt(Toks, {2, 3, 4, 5, 14, 15}, 32) =>
               IsOk(result)
        /\ (/\ Len(Toks) >= 14
            /\ ParseAt(Toks, {2, 3, 4, 5}, 5)
            /\ ~parse_u16(Toks[14]).some) => result = InvalidToken(14)
        /\ (/\ Len(Toks) >= 15
            /\ ParseAt(Toks, {2, 3, 4, 5, 14}, 14)
            /\ ~parse_u16(Toks[15]).some) => result = InvalidToken(15)

C19_Witness ==
    /\ op = "try_from"
    /\ IsOk(result)
    /\ Len(Tokens) = 32
    /\ result.val.indoor.baro_sea = 1017
    /\ result.val.indoor.baro_absolute = 954
    /\ result.val.ext[2].some
    /\ ~result.val.ext[3].some

(* C20: a telegram with fewer tokens than the parser reads, whose
   mandatory tokens, as far as present, parse, fails with UnexpectedEnd
   carrying its number of tokens. *)
C20_UnexpectedEnd ==
    op = "try_from" =>
        LET Toks == Tokens IN
        (/\ Len(Toks) < TokenCount
         /\ ParseAt(Toks, {k \in 1..TokenCount : Mandatory(TokenKinds[k])},
                    Len(Toks))) =>
            result = UnexpectedEnd(Len(Toks))

C20_Witness ==
    /\ op = "try_from"
    /\ Len(Tokens) = 17
    /\ ~parse_f32(Tokens[6]).some
    /\ result = UnexpectedEnd(17)

(* The positions of the tokens that must parse *)
MandatoryPositions == {k \in 1..TokenCount : Mandatory(TokenKinds[k])}

(* C21: a telegram that parses, followed by one or more further tokens,
   fails with GarbageEnd carrying the first byte of the first of them;
   white space behind the last token does no harm. *)
C21_GarbageEnd ==
    op = "try_from" =>
        LET Toks == Tokens IN
        /\ (/\ Len(Toks) > TokenCount
            /\ ParseAt(Toks, MandatoryPositions, TokenCount)) =>
               result = GarbageEnd(Toks[TokenCount + 1][1])
        /\ (/\ Len(Toks) = TokenCount
            /\ ParseAt(Toks, MandatoryPositions, TokenCount)) =>
               IsOk(result)

C21_Witness ==
    /\ op = "try_from"
    /\ Len(Tokens) = TokenCount + 2
    /\ result = GarbageEnd(71)

(* The positions of indoor temperature, indoor humidity, baro_sea and
   baro_absolute *)
IndoorPositions == {4, 5, 14, 15}

(* C22: when the token of indoor temperature, indoor humidity, baro_sea
   or baro_absolute does not parse as its type, parsing fails with
   InvalidToken carrying the one-based position of that token. *)
C22_MandatoryFields ==
    op = "try_from" =>
        LET Toks == Tokens IN
        \A k \in IndoorPositions :
            (/\ Len(Toks) >= k
             /\ ParseAt(Toks, MandatoryPositions, k - 1)
             /\ ~ParseToken(TokenKinds[k], Toks[k]).some) =>
                result = InvalidToken(k)

C22_Witness ==
    /\ op = "try_from"
    /\ Len(Tokens) = TokenCount
    /\ Tokens[15] = <<45, 45>>
    /\ result = InvalidToken(15)

(* The positions of the outdoor and extra-sensor fields *)
OptionalPositions ==
    {k \in 1..TokenCount : TokenKinds[k] \in {"f32", "u8", "u16"}}

(* C23: a token at an outdoor or extra-sensor position that is not a
   number never makes parsing fail: InvalidToken never carries such a
   position, and a telegram of full length whose mandatory tokens parse
   is parsed whatever its optional tokens are. *)
C23_SentinelTolerance ==
    op = "try_from" =>
        LET Toks == Tokens IN
        /\ result.kind = "InvalidToken" =>
               result.tpos \notin OptionalPositions
        /\ (/\ Len(Toks) = TokenCount
            /\ ParseAt(Toks, MandatoryPositions, TokenCount)) =>
               IsOk(result)

C23_Witness ==
    /\ op = "try_from"
    /\ IsOk(result)
    /\ Tokens[8] = <<45, 45, 46, 45>>
    /\ Tokens[20] = <<53, 55>>

(* The positions of the nine outdoor fields *)
OutdoorPositions == {6, 7, 8, 9, 10, 11, 12, 16, 17}

(* C24: in a parsed telegram outdoor is Some exactly if all nine outdoor
   tokens parsed; one placeholder among them makes it None. *)
C24_OutdoorAllOrNothing ==
    op = "try_from" /\ IsOk(result) =>
        LET Toks == Tokens IN
        /\ result.val.outdoor.some <=>
               ParseAt(Toks, OutdoorPositions, TokenCount)
        /\ result.val.outdoor.some =>
               result.val.outdoor.val =
                   [temperature |-> parse_f32(Toks[6]).val,
                    humidity |-> parse_u8(Toks[7]).val,
                    rain_day |-> parse_f32(Toks[8]).val,
                    rain_actual |-> parse_f32(Toks[9]).val,
                    wind_actual |-> parse_f32(Toks[10]).val,
                    wind_gust |-> parse_f32(Toks[11]).val,
                    wind_dir |-> parse_u16(Toks[12]).val,
                    uv_index |-> parse_f32(Toks[16]).val,
                    dew_point |-> parse_f32(Toks[17]).val]

C24_Witness ==
    /\ op = "try_from"
    /\ IsOk(result)
    /\ Tokens[12] = <<45, 45>>
    /\ \A k \in OutdoorPositions \ {12} :
           ParseToken(TokenKinds[k], Tokens[k]).some
    /\ ~result.val.outdoor.some

(* C25: in a parsed telegram ext[i] is Some exactly if the two tokens of
   pair i parsed, whatever the other pairs and the outdoor tokens are. *)
C25_ExtSlotsIndependent ==
    op = "try_from" /\ IsOk(result) =>
        LET Toks == Tokens IN
        \A i \in 1..EXT_SENSOR_COUNT :
            result.val.ext[i].some <=>
                /\ parse_f32(Toks[17 + 2 * i]).some
                /\ parse_u8(Toks[18 + 2 * i]).some

C25_Witness ==
    /\ op = "try_from"
    /\ IsOk(result)
    /\ Tokens[19] = <<45, 45, 46, 45>>
    /\ ~result.val.ext[1].some
    /\ result.val.ext[2].some
    /\ result.val.outdoor.some

(* The number written in the n digits of tok from position i on, -1 if
   they are not all digits *)
NumberAt(tok, i, n) ==
    IF Len(tok) >= i + n - 1 /\ \A k \in i..(i + n - 1) : tok[k] \in 48..57
    THEN IF n = 2 THEN (tok[i] - 48) * 10 + tok[i + 1] - 48
         ELSE (tok[i] - 48) * 1000 + (tok[i + 1] - 48) * 100
              + (tok[i + 2] - 48) * 10 + tok[i + 3] - 48
    ELSE -1

LeapYear(y) == y % 4 = 0 /\ (y % 100 # 0 \/ y % 400 = 0)

(* Days of the year before the first of month m *)
DaysBeforeMonth(y, m) ==
    <<0, 31, 59, 90, 120, 151, 181, 212, 243, 273, 304, 334>>[m]
    + (IF m > 2 /\ LeapYear(y) THEN 1 ELSE 0)

MonthLength(y, m) ==
    IF m = 2 THEN (IF LeapYear(y) THEN 29 ELSE 28)
    ELSE IF m \in {4, 6, 9, 11} THEN 30 ELSE 31

(* Days from 1970-01-01 to the first of January of year y, by counting
   the years between *)
DaysBeforeYear(y) ==
    IF y >= 1970
    THEN 365 * (y - 1970) + Cardinality({x \in 1970..(y - 1) : LeapYear(x)})
    ELSE 0 - (365 * (1970 - y)
              + Cardinality({x \in y..1969 : LeapYear(x)}))

(* The token is YYYY-MM-DD and names a day of the calendar. *)
ValidDateToken(tok) ==
    /\ Len(tok) = 10
    /\ tok[5] = 45
    /\ tok[8] = 45
    /\ NumberAt(tok, 1, 4) >= 0
    /\ NumberAt(tok, 6, 2) \in 1..12
    /\ NumberAt(tok, 9, 2) >= 1
    /\ NumberAt(tok, 9, 2) <=
           MonthLength(NumberAt(tok, 1, 4), NumberAt(tok, 6, 2))

(* The token is HH:MM and names a minute of the day. *)
ValidTimeToken(tok) ==
    /\ Len(tok) = 5
    /\ tok[3] = 58
    /\ NumberAt(tok, 1, 2) \in 0..23
    /\ NumberAt(tok, 4, 2) \in 0..59

(* C26: for a valid date token YYYY-MM-DD and a valid time token HH:MM
   the date and time are accepted and local_timestamp is 86400 times
   the days from 1970-01-01 to the date plus 3600 * HH + 60 * MM: no
   offset, no seconds, a multiple of 60. *)
C26_LocalTimestamp ==
    op = "try_from" =>
        LET Toks == Tokens IN
        (/\ Len(Toks) >= 3
         /\ ValidDateToken(Toks[2])
         /\ ValidTimeToken(Toks[3])) =>
            /\ ~(result.kind = "InvalidToken" /\ result.tpos \in {2, 3})
            /\ IsOk(result) =>
                   /\ result.val.local_timestamp =
                          86400 * (DaysBeforeYear(NumberAt(Toks[2], 1, 4))
                                   + DaysBeforeMonth(NumberAt(Toks[2], 1, 4),
                                                     NumberAt(Toks[2], 6, 2))
                                   + NumberAt(Toks[2], 9, 2) - 1)
                          + 3600 * NumberAt(Toks[3], 1, 2)
                          + 60 * NumberAt(Toks[3], 4, 2)
                   /\ result.val.local_timestamp % 60 = 0
                   /\ (/\ Toks[2] = <<50, 48, 50, 48, 45, 48, 49, 45, 49, 55>>
                       /\ Toks[3] = <<49, 55, 58, 51, 48>>) =>
                          result.val.local_timestamp = 1579282200

C26_Witness ==
    /\ op = "try_from"
    /\ IsOk(result)
    /\ Tokens[2] = <<50, 48, 50, 48, 45, 48, 49, 45, 49, 55>>
    /\ Tokens[3] = <<49, 55, 58, 51, 48>>
    /\ result.val.local_timestamp = 1579282200

(* The telegram of test_parse_data1, as one string *)
TestParseData1 ==
    <<51, 32, 50, 48, 50, 48, 45, 48, 49, 45, 49, 55, 32, 49, 55, 58, 51,
      48, 32, 50, 48, 46, 52, 32, 52, 57, 32, 54, 46, 48, 32, 54, 48, 32,
      48, 46, 48, 32, 48, 46, 48, 32, 48, 46, 48, 32, 48, 46, 48, 32, 49,
      50, 57, 32, 83, 69, 32, 49, 48, 49, 55, 32, 57, 53, 52, 32, 48, 32,
      45, 49, 46, 50, 32, 45, 45, 46, 45, 32, 50, 55, 46, 51, 32, 53, 55,
      32, 51, 51, 46, 52, 32, 52, 48, 32, 45, 45, 46, 45, 32, 45, 45, 32,
      45, 45, 46, 45, 32, 45, 45, 32, 45, 45, 46, 45, 32, 45, 45, 32, 45,
      45, 46, 45, 32, 45, 45, 32, 45, 45, 46, 45, 32, 45, 45>>

(* The record test_parse_data1 and test_good_data_assembly expect, the
   floats in the canonical decimal form *)
ExpectedData1 ==
    LET Zero == [neg |-> FALSE, digits |-> <<>>, point |-> 0]
    IN  [local_timestamp |-> 1579282200,
         indoor |->
             [temperature |->
                  [neg |-> FALSE, digits |-> <<50, 48, 52>>, point |-> 2],
              humidity |-> 49,
              baro_sea |-> 1017,
              baro_absolute |-> 954],
         outdoor |->
             Some([temperature |->
                       [neg |-> FALSE, digits |-> <<54>>, point |-> 1],
                   humidity |-> 60,
                   rain_day |-> Zero,
                   rain_actual |-> Zero,
                   wind_actual |-> Zero,
                   wind_gust |-> Zero,
                   wind_dir |-> 129,
                   uv_index |-> Zero,
                   dew_point |->
                       [neg |-> TRUE, digits |-> <<49, 50>>, point |-> 1]]),
         ext |->
             <<Some([temperature |->
                         [neg |-> FALSE, digits |-> <<50, 55, 51>>,
                          point |-> 2],
                     humidity |-> 57]),
               Some([temperature |->
                         [neg |-> FALSE, digits |-> <<51, 51, 52>>,
                          point |-> 2],
                     humidity |-> 40]),
               None, None, None, None, None>>]

(* C27: the telegram of test_parse_data1 parses to the expected record
   when given to the parser as one string, and three in-order fragments
   of it given to an Idle assembler return Ok(None), Ok(None) and then
   that record. *)
C27_LiteralTelegram ==
    /\ try_from(TestParseData1) = Ok(ExpectedData1)
    /\ (/\ Len(fed) = 3
        /\ fed[1].frame.hdr.frag_cnt = 3
        /\ Payloads(fed) = TestParseData1) =>
           /\ fed[1].res = Ok(None)
           /\ fed[2].res = Ok(None)
           /\ fed[3].res = Ok(Some(ExpectedData1))
           /\ result = fed[3].res

C27_Witness ==
    /\ Len(fed) = 3
    /\ fed[1].frame.payload.data = Part1
    /\ fed[2].frame.payload.data = Part2
    /\ fed[3].frame.payload.data = Part3
    /\ Payloads(fed) = TestParseData1
    /\ result = Ok(Some(ExpectedData1))

(* C29: with the fixed-capacity buffer, parse of a frame whose frag_idx
   is the stored frag_idx + 1 returns MessageTooLarge if and only if the
   buffer length plus the payload length exceeds 256, and the buffer
   never holds more than 256 bytes; with the growable buffer parse never
   returns MessageTooLarge. *)
C29_MessageTooLarge ==
    /\ [](storage = "heapless" => Len(buffer) <= MAX_MESSAGE_LEN)
    /\ [][ParseStep =>
             /\ (storage = "heapless" /\ InOrder) =>
                    (result'.kind = "MessageTooLarge"
                         <=> Len(Joined) > MAX_MESSAGE_LEN)
             /\ storage = "std" => result'.kind # "MessageTooLarge"]_vars

C29_Witness ==
    /\ op = "parse"
    /\ storage = "heapless"
    /\ packet.hdr.frag_idx = frag_idx + 1
    /\ Len(buffer) <= MAX_MESSAGE_LEN
    /\ Len(buffer) + Len(packet.payload.data) > MAX_MESSAGE_LEN
    /\ result = MessageTooLarge(Len(buffer) + Len(packet.payload.data))

RECURSIVE JoinPayloads(_)
JoinPayloads(frames) ==
    IF frames = <<>> THEN <<>>
    ELSE frames[1].data \o JoinPayloads(Tail(frames))

(* The last n accepted frames *)
LastAccepted(n) ==
    SubSeq(accepted_frames, Len(accepted_frames) - n + 1,
           Len(accepted_frames))

(* C30: in every state either the stored frag_idx is 0 and the buffer is
   empty, or the stored frag_idx is N > 0, the last N accepted frames
   were numbered 1..N and the buffer is their payloads joined in
   order. *)
C30_StateInvariant ==
    IF frag_idx = 0 THEN buffer = <<>>
    ELSE /\ frag_idx > 0
         /\ frag_idx <= Len(accepted_frames)
         /\ \A i \in 1..frag_idx : LastAccepted(frag_idx)[i].frag_idx = i
         /\ buffer = JoinPayloads(LastAccepted(frag_idx))

C30_Witness ==
    /\ op = "parse"
    /\ frag_idx >= 3
    /\ Len(accepted_frames) = frag_idx
    /\ buffer = JoinPayloads(accepted_frames)
    /\ Len(buffer) > Len(accepted_frames[1].data)
    /\ accepted_frames[2].data # accepted_frames[1].data

----------------------------------------------------------------------------
(* The client: Ws6in1Client::write and Ws6in1Client::write_datetime *)

BUFFER_SIZE == 128

ProtocolError(e) == [kind |-> "ProtocolError", error |-> e]

HidError == [kind |-> "HidError"]

TimeError == [kind |-> "TimeError"]

(* What a call of write leaves: its result, the cursor over its buffer
   and the reports it wrote to the device *)
Written(r, c, out) == [res |-> r, cur |-> c, out |-> out]

Ws6in1Client_write_NoReportId(m, io, b) ==
    IF io = "open_failed" THEN Written(HidError, Cursor(<<>>), <<>>)
    ELSE LET s == AnyWs6in1MessageBase_serialize(
                      m, Cursor(Zeros(BUFFER_SIZE)), b)
         IN  IF s.res = Panic THEN Written(Panic, s.cur, <<>>)
             ELSE IF ~IsOk(s.res)
                  THEN Written(ProtocolError(s.res), s.cur, <<>>)
             ELSE IF io = "write_failed" THEN Written(HidError, s.cur, <<>>)
             ELSE Written(OkUnit, s.cur,
                          <<SubSeq(s.cur.buf, 1, s.cur.pos)>>)

(* Ws6in1Client::write: the device is opened, the report ID 0 and the
   message are written into a zeroed buffer of BUFFER_SIZE bytes and the
   bytes up to the cursor are written to the device.  io is what the
   transport does: "ok", "open_failed" or "write_failed". *)
Ws6in1Client_write(m, io, b) ==
    IF io = "open_failed" THEN Written(HidError, Cursor(<<>>), <<>>)
    ELSE LET s == AnyWs6in1MessageBase_serialize(
                      m, write_u8(Cursor(Zeros(BUFFER_SIZE)), 0), b)
         IN  IF s.res = Panic THEN Written(Panic, s.cur, <<>>)
             ELSE IF ~IsOk(s.res)
                  THEN Written(ProtocolError(s.res), s.cur, <<>>)
             ELSE IF io = "write_failed" THEN Written(HidError, s.cur, <<>>)
             ELSE Written(OkUnit, s.cur,
                          <<SubSeq(s.cur.buf, 1, s.cur.pos)>>)

(* The date of the day that lies the given number of days after
   1970-01-01 in the proleptic Gregorian calendar *)
CivilFromDays(days) ==
    LET z == days + 719468
        era == z \div 146097
        doe == z - era * 146097
        yoe == (doe - (doe \div 1460) + (doe \div 36524)
                - (doe \div 146096)) \div 365
        doy == doe - (365 * yoe + (yoe \div 4) - (yoe \div 100))
        mp == (5 * doy + 2) \div 153
        d == doy - ((153 * mp + 2) \div 5) + 1
        m == IF mp < 10 THEN mp + 3 ELSE mp - 9
        y == yoe + era * 400 + (IF m <= 2 THEN 1 ELSE 0)
    IN  [year |-> y, month |-> m, day |-> d]

(* `(now.year() % 100) as u8`: the remainder has the sign of the year
   and the cast wraps *)
YearByte(y) == IF y >= 0 THEN y % 100 ELSE (256 - ((0 - y) % 100)) % 256

Ws6in1Client_write_datetime_IgnoresFailure(ts, off, io1, io2, b) ==
    IF ~off.some
    THEN [res |-> TimeError, msg |-> NoMessage, cur |-> Cursor(<<>>),
          out |-> <<>>]
    ELSE LET now == ts + off.val
             date == CivilFromDays(now \div 86400)
             secs == now % 86400
             d == AnySetDate(Ws6in1SetDate(date.day, date.month,
                                           YearByte(date.year)))
             t == AnySetTime(Ws6in1SetTime(secs \div 3600,
                                           (secs % 3600) \div 60,
                                           secs % 60))
             w1 == Ws6in1Client_write(d, io1, b)
             w2 == Ws6in1Client_write(t, io2, b)
         IN  [res |-> IF ~IsOk(w1.res) THEN w1.res ELSE w2.res,
              msg |-> t, cur |-> w2.cur, out |-> w1.out \o w2.out]

(* Ws6in1Client::write_datetime: the local date and time of the
   timestamp, sent as a SetDate and then a SetTime command; each `?`
   returns at the first failure.  off is the local offset in seconds,
   None if it cannot be determined. *)
Ws6in1Client_write_datetime(ts, off, io1, io2, b) ==
    IF ~off.some
    THEN [res |-> TimeError, msg |-> NoMessage, cur |-> Cursor(<<>>),
          out |-> <<>>]
    ELSE LET now == ts + off.val
             date == CivilFromDays(now \div 86400)
             secs == now % 86400
             d == AnySetDate(Ws6in1SetDate(date.day, date.month,
                                           YearByte(date.year)))
             t == AnySetTime(Ws6in1SetTime(secs \div 3600,
                                           (secs % 3600) \div 60,
                                           secs % 60))
             w1 == Ws6in1Client_write(d, io1, b)
             w2 == Ws6in1Client_write(t, io2, b)
         IN  IF ~IsOk(w1.res)
             THEN [res |-> w1.res, msg |-> d, cur |-> w1.cur,
                   out |-> w1.out]
             ELSE [res |-> w2.res, msg |-> t, cur |-> w2.cur,
                   out |-> w1.out \o w2.out]

HidOutcomes == {"ok", "open_failed", "write_failed"}

(* 1970-01-01 00:00:00, one second before it, 2020-01-17 17:30:00,
   2000-02-29 23:59:59, 2024-12-31 12:34:56 *)
Timestamps == {0, 0 - 1, 1579282200, 951868799, 1735648496}

(* Local offsets in seconds: UTC, +01:00, -05:00, +05:45, +14:00 *)
LocalOffsets == {0, 3600, 0 - 18000, 20700, 50400}

(* write(msg) called by a user of the client *)
ClientWrite(m, io) ==
    /\ op = "new"
    /\ Constructible(m)
    /\ LET w == Ws6in1Client_write(m, io, build)
       IN  /\ result' = w.res
           /\ wire' = w.cur.buf
           /\ pos' = w.cur.pos
           /\ sent' = sent \o w.out
    /\ msg' = m
    /\ op' = "write"
    /\ UNCHANGED <<build, storage, frag_idx, buffer, packet, fed,
                   accepted_frames, replay, returned>>

(* write_datetime(timestamp) called by a user of the client; msg is the
   last message it handed to write *)
WriteDatetime(ts, off, io1, io2) ==
    /\ op = "new"
    /\ LET w == Ws6in1Client_write_datetime(ts, off, io1, io2, build)
       IN  /\ result' = w.res
           /\ wire' = w.cur.buf
           /\ pos' = w.cur.pos
           /\ sent' = sent \o w.out
           /\ msg' = w.msg
    /\ op' = "write_datetime"
    /\ UNCHANGED <<build, storage, frag_idx, buffer, packet, fed,
                   accepted_frames, replay, returned>>

NextClient ==
    \/ \E m \in Messages, io \in HidOutcomes : ClientWrite(m, io)
    \/ \E ts \in Timestamps,
          off \in {Some(o) : o \in LocalOffsets} \cup {None},
          io1 \in HidOutcomes, io2 \in HidOutcomes :
           WriteDatetime(ts, off, io1, io2)

SpecClient == Init /\ [][NextClient]_vars

----------------------------------------------------------------------------
(* Properties of the client *)

(* C28, as stated: every message that write serializes and sends to the
   device is a SetDate or a SetTime command, never a data frame. *)
C28_AsStated ==
    (op = "write" /\ IsOk(result) /\ sent # <<>>) =>
        msg.tag \in {"SetDate", "SetTime"}

(* The report is the report ID 0 and a SetDate or SetTime command. *)
CommandReport(r) ==
    /\ Len(r) = 1 + CMD_LENGTH
    /\ r[1] = 0
    /\ r[2] = CMD_TYPE
    /\ r[3] \in {SET_DATE_OPCODE, SET_TIME_OPCODE}

(* C28, amended: every message that write_datetime, the only caller of
   write in the crate, has write serialize and send is a SetDate or a
   SetTime command; write itself serializes and sends the message its
   caller gives it, a data frame as well as a command. *)
C28_CommandsFromWriteDatetime ==
    /\ op = "write_datetime" =>
           /\ msg = NoMessage \/ msg.tag \in {"SetDate", "SetTime"}
           /\ \A i \in 1..Len(sent) : CommandReport(sent[i])
    /\ (op = "write" /\ IsOk(result)) =>
           /\ Len(sent) = 1
           /\ Len(sent[1]) = 1 + WireLength(msg)
           /\ sent[1][1] = 0
           /\ sent[1][2] =
                  (IF msg.tag = "DataFrame" THEN FRAME_TYPE ELSE CMD_TYPE)

C28_Witness ==
    /\ op = "write_datetime"
    /\ IsOk(result)
    /\ Len(sent) = 2
    /\ sent[1][3] = SET_DATE_OPCODE
    /\ sent[2][3] = SET_TIME_OPCODE

----------------------------------------------------------------------------
(* Further properties of the assembler *)

(* What parse returns for a buffer it interprets *)
Interpreted(buf) ==
    IF IsOk(Interpret(buf)) THEN Ok(Some(Interpret(buf).val))
    ELSE Interpret(buf)

(* The frame was accumulated: payload appended, counter raised, nothing
   interpreted *)
Accumulated ==
    /\ result' = Ok(None)
    /\ frag_idx' = frag_idx + 1
    /\ buffer' = Joined

(* C31, as stated: an in-sequence frame completes the message, and the
   buffer is interpreted, if and only if the updated stored frag_idx
   equals the frame's own frag_cnt; otherwise, as when its frag_cnt is 0
   or smaller than its frag_idx, it is accumulated and parse returns
   Ok(None). *)
C31_AsStated ==
    [][ParseStep /\ InOrder =>
          IF frag_idx + 1 = packet'.hdr.frag_cnt
          THEN result' = Interpreted(Joined)
          ELSE Accumulated]_vars

(* C31, amended: the same for an in-sequence frame whose payload fits
   the buffer (any frame with the growable buffer); one that does not
   fit is not accepted at all. *)
C31_CompletionByAcceptedFrame ==
    [][ParseStep /\ InOrder /\ Fits =>
          IF frag_idx + 1 = packet'.hdr.frag_cnt
          THEN result' = Interpreted(Joined)
          ELSE Accumulated]_vars

(* A record is returned for a frame numbered 3 whose predecessors
   carried another frag_cnt. *)
C31_Witness ==
    /\ op = "parse"
    /\ result.kind = "Ok" /\ result.val.some
    /\ packet.hdr.frag_idx = 3
    /\ packet.hdr.frag_cnt = 3
    /\ fed = <<>>

(* The positions of buf that hold a byte above the ASCII range.  The
   frames of the model carry only one such byte, 0xFF, which no UTF-8
   sequence contains. *)
NonAscii(buf) == {i \in 1..Len(buf) : buf[i] >= 128}

(* C32: when an accepted frame completes a message whose bytes are not
   valid text, parse returns InvalidCharacter with the offset of the
   first invalid byte counted from the start of the whole buffer, not a
   result of the telegram parser; bytes that are valid text never give
   InvalidCharacter. *)
C32_InvalidCharacterOffset ==
    [][(/\ ParseStep
        /\ InOrder
        /\ Fits
        /\ frag_idx + 1 = packet'.hdr.frag_cnt
        /\ \A i \in NonAscii(Joined) : Joined[i] = 255) =>
           IF NonAscii(Joined) = {}
           THEN result'.kind # "InvalidCharacter"
           ELSE result' =
                    InvalidCharacter(
                        (CHOOSE i \in NonAscii(Joined) :
                             \A j \in NonAscii(Joined) : i <= j) - 1)]_vars

(* The invalid byte came with the second fragment, after the four bytes
   of the first. *)
C32_Witness ==
    /\ op = "parse"
    /\ packet.hdr.frag_idx = 2
    /\ packet.hdr.frag_cnt = 2
    /\ packet.payload.data = NotText
    /\ Len(fed) = 2
    /\ fed[1].frame.payload.data = Foo
    /\ result = InvalidCharacter(Len(Foo))

----------------------------------------------------------------------------
(* Further properties of the codec *)

(* Where the first checksum byte lies in a buffer of the given layout,
   counted from 1: offset 61 of a data frame, 5 of a command *)
ChecksumPosition(tag) ==
    IF tag = "DataFrame" THEN FRAME_LENGTH - FOOTER_LENGTH + 1
    ELSE CMD_LENGTH - FOOTER_LENGTH + 1

(* The layout a decoder reads the buffer as; "" if the dispatcher finds
   neither type byte *)
LayoutRead(dec, bytes) ==
    IF dec = "data" THEN "DataFrame"
    ELSE IF dec \in {"set_date", "set_time"} THEN "Command"
    ELSE IF bytes = <<>> THEN ""
    ELSE IF bytes[1] = FRAME_TYPE THEN "DataFrame"
    ELSE IF bytes[1] = CMD_TYPE THEN "Command"
    ELSE ""

ChecksumBytes == {0, 1, 171, 253, 255}

(* C33: a decoded buffer gives the same result and end position with
   any other two checksum bytes in it; an encoded message has both
   checksum bytes 0. *)
C33_ChecksumIgnored ==
    /\ (op \in Decoders /\ LayoutRead(op, wire) # "") =>
           LET at == ChecksumPosition(LayoutRead(op, wire))
           IN  Len(wire) > at =>
                   \A hi \in ChecksumBytes, lo \in ChecksumBytes :
                       LET r == Decode(op, Cursor([wire EXCEPT
                                                      ![at] = hi,
                                                      ![at + 1] = lo]))
                       IN  r.res = result /\ r.cur.pos = pos
    /\ (op = "serialize" /\ IsOk(result)) =>
           /\ wire[ChecksumPosition(msg.tag)] = 0
           /\ wire[ChecksumPosition(msg.tag) + 1] = 0

(* A received command with checksum bytes other than 0 was decoded. *)
C33_Witness ==
    /\ op = "any"
    /\ IsOk(result)
    /\ result.val.tag = "SetTime"
    /\ wire[ChecksumPosition("Command")] = 171
    /\ wire[ChecksumPosition("Command") + 1] = 171

(* C34: a frame whose frag_idx is 0 is rejected in every assembler
   state: parse returns FragmentDiscarded with the stored frag_idx and
   the assembler is Idle; the call does not trap. *)
C34_ZeroIndexRejected ==
    [][(op' = "parse" /\ packet'.hdr.frag_idx = 0) =>
           /\ result' = FragmentDiscarded(frag_idx)
           /\ frag_idx' = 0
           /\ buffer' = <<>>]_vars

(* C35, as stated: a call that fails with MessageTooLarge leaves the
   stored frag_idx and the buffer as they were, the assembler is
   Accumulating, and the assembler leaves that state only by rejecting
   a frame as out of sequence; in particular, if the next call leaves
   the assembler Idle it returned FragmentDiscarded. *)
C35_AsStated ==
    [][ParseStep =>
          /\ result'.kind = "MessageTooLarge" =>
                 /\ frag_idx' = frag_idx
                 /\ buffer' = buffer
                 /\ frag_idx' > 0
          /\ (op = "parse" /\ result.kind = "MessageTooLarge"
              /\ frag_idx' = 0) =>
                 result'.kind = "FragmentDiscarded"]_vars

(* C35, amended: a call that fails with MessageTooLarge leaves the
   stored frag_idx and the buffer as they were and the assembler
   Accumulating; an Accumulating assembler becomes Idle only by a call
   that rejects a frame as out of sequence or that returns a record. *)
C35_MessageTooLargeKeepsState ==
    [][ParseStep =>
          /\ result'.kind = "MessageTooLarge" =>
                 /\ frag_idx' = frag_idx
                 /\ buffer' = buffer
                 /\ frag_idx' > 0
          /\ (frag_idx > 0 /\ frag_idx' = 0) =>
                 \/ result'.kind = "FragmentDiscarded"
                 \/ result'.kind = "Ok" /\ result'.val.some]_vars

(* The frame that did not fit was given once more and refused again. *)
C35_Witness ==
    /\ op = "parse"
    /\ result.kind = "MessageTooLarge"
    /\ storage = "heapless"
    /\ packet.hdr.frag_idx = frag_idx + 1
    /\ Len(buffer) + Len(packet.payload.data) = result.len
    /\ Len(buffer) > MAX_MESSAGE_LEN - MAX_PAYLOAD_LEN
    /\ accepted_frames # <<>>
    /\ Len(accepted_frames) = frag_idx

----------------------------------------------------------------------------
(* The assembler when the fragments of a telegram are fed twice over,
   after any sequence of frames *)

(* "3 2020-01-17 17:30 1 2 - - - - - - - - 3 4 - - - - - -" *)
Short1 ==
    <<51, 32, 50, 48, 50, 48, 45, 48, 49, 45, 49, 55, 32, 49, 55, 58, 51,
      48, 32, 49, 32, 50, 32, 45, 32, 45, 32, 45, 32, 45, 32, 45, 32, 45,
      32, 45, 32, 45, 32, 51, 32, 52, 32, 45, 32, 45, 32, 45, 32, 45, 32,
      45, 32, 45>>

(* " - - - - - - - - - - -" *)
Short2 ==
    <<32, 45, 32, 45, 32, 45, 32, 45, 32, 45, 32, 45, 32, 45, 32, 45, 32,
      45, 32, 45, 32, 45>>

(* Valid telegrams in fragments numbered 1..N with frag_cnt N: 76 bytes
   in two fragments, the 133 bytes of test_good_data_assembly in three,
   and 256 bytes, the capacity of the fixed buffer, in six *)
ReplayTelegrams ==
    {<<Frame(2, 1, Short1), Frame(2, 2, Short2)>>,
     <<Frame(3, 1, Part1), Frame(3, 2, Part2), Frame(3, 3, Part3)>>,
     <<Frame(6, 1, Part1), Frame(6, 2, Part2), Frame(6, 3, Part3),
       Frame(6, 4, Blank), Frame(6, 5, Blank),
       Frame(6, 6, Fill(MAX_MESSAGE_LEN - 4 * MAX_PAYLOAD_LEN - Len(Part3),
                        32))>>}

(* One call of Ws6in1AssemblerBase::parse with the next frame of the
   telegram t, which is fed twice *)
Replay(t) ==
    /\ result.kind # "Panic"
    /\ Len(replay) < 2 * Len(t)
    /\ replay # <<>> => replay[1].frame = t[1]
    /\ LET pkt == t[(Len(replay) % Len(t)) + 1]
           r == Ws6in1AssemblerBase_parse(frag_idx, buffer, pkt, storage,
                                          build)
       IN  /\ frag_idx' = r.frag_idx
           /\ buffer' = r.buffer
           /\ result' = r.res
           /\ fed' = Fed(pkt, r.res)
           /\ accepted_frames' = AcceptedFrames(pkt, r.res)
           /\ packet' = pkt
           /\ replay' = Append(replay, [frame |-> pkt, res |-> r.res])
    /\ op' = "parse"
    /\ UNCHANGED <<build, storage, sent, returned, msg, wire, pos>>

NextReplay ==
    \/ \E pkt \in Frames : replay = <<>> /\ Parse(pkt)
    \/ \E t \in ReplayTelegrams : Replay(t)

SpecReplay == Init /\ [][NextReplay]_vars

RECURSIVE JoinFrames(_)
JoinFrames(frames) ==
    IF frames = <<>> THEN <<>>
    ELSE frames[1].payload.data \o JoinFrames(Tail(frames))

(* The telegram whose fragments are being fed *)
Replayed == CHOOSE t \in ReplayTelegrams : t[1] = replay[1].frame

(* C36: once the N in-order fragments of a valid telegram of at most 256
   bytes were fed twice in succession, in whatever state the assembler
   was, parse has returned the telegram's record at the last frame of
   the first copy or of the second. *)
C36_SelfHealing ==
    (replay # <<>> /\ Len(replay) = 2 * replay[1].frame.hdr.frag_cnt) =>
        LET N == Len(Replayed)
            bytes == JoinFrames(Replayed)
        IN  /\ Len(bytes) <= MAX_MESSAGE_LEN
            /\ IsOk(try_from(bytes))
            /\ \/ replay[N].res = Ok(Some(try_from(bytes).val))
               \/ replay[2 * N].res = Ok(Some(try_from(bytes).val))

(* The first copy met an assembler holding a full buffer and was
   discarded, the second gave the record. *)
C36_Witness ==
    /\ Len(replay) = 12
    /\ storage = "heapless"
    /\ replay[1].res.kind = "FragmentDiscarded"
    /\ replay[1].res.idx >= 4
    /\ replay[6].res.kind = "FragmentDiscarded"
    /\ replay[12].res.kind = "Ok"
    /\ replay[12].res.val.some
    /\ result = replay[12].res
    /\ Idle

----------------------------------------------------------------------------
(* Further properties of the telegram parser *)

(* The positions of the fixed sequence at which parsing cannot go on:
   no token is left, or the token must parse and does not *)
FailingPositions(toks) ==
    {k \in 1..TokenCount :
        \/ k > Len(toks)
        \/ k \in MandatoryPositions
           /\ ~ParseToken(TokenKinds[k], toks[k]).some}

(* C37: the first position, in token order, that is missing or
   mandatory and unparsable determines the error: UnexpectedEnd with the
   number of tokens there are, or InvalidToken with that position;
   GarbageEnd is returned only when there is no such position. *)
C37_EarliestFailure ==
    op = "try_from" =>
        LET Toks == Tokens
            bad == FailingPositions(Toks)
        IN  IF bad = {} THEN result.kind \in {"Ok", "GarbageEnd"}
            ELSE LET first == CHOOSE k \in bad : \A j \in bad : k <= j
                 IN  IF first > Len(Toks)
                     THEN result = UnexpectedEnd(Len(Toks))
                     ELSE result = InvalidToken(first)

(* Two mandatory tokens do not parse and the telegram is too short as
   well: the earlier token is reported. *)
C37_Witness ==
    /\ op = "try_from"
    /\ Len(Tokens) = 13
    /\ FailingPositions(Tokens) = {3, 5} \cup 14..TokenCount
    /\ result = InvalidToken(3)

----------------------------------------------------------------------------
(* Further properties of the client *)

(* The report is the report ID 0 and a command with the given opcode. *)
CommandWith(r, opcode) ==
    /\ Len(r) = 1 + CMD_LENGTH
    /\ r[1] = 0
    /\ r[2] = CMD_TYPE
    /\ r[3] = opcode

(* C39: write_datetime sends one SetDate command and then one SetTime
   command, each as its own report of 9 bytes that begins with the report
   ID 0, and returns Ok exactly when both were sent; when the SetDate
   command was not sent, no SetTime command is sent either and an error
   is returned. *)
C39_DateThenTime ==
    op = "write_datetime" =>
        /\ Len(sent) <= 2
        /\ Len(sent) >= 1 => CommandWith(sent[1], SET_DATE_OPCODE)
        /\ Len(sent) = 2 => CommandWith(sent[2], SET_TIME_OPCODE)
        /\ IsOk(result) <=> Len(sent) = 2
        /\ (sent = <<>> /\ msg # NoMessage) =>
               /\ msg.tag = "SetDate"
               /\ result = HidError

(* 2020-01-17 17:30:00 UTC is sent as the two reports, the date first. *)
C39_Witness ==
    /\ op = "write_datetime"
    /\ IsOk(result)
    /\ sent = << <<0, CMD_TYPE, SET_DATE_OPCODE, 20, 1, 17, 0, 0, MAGIC>>,
                 <<0, CMD_TYPE, SET_TIME_OPCODE, 17, 30, 0, 0, 0, MAGIC>> >>

----------------------------------------------------------------------------
(* The reading half of the client: Ws6in1Client::read_weather_data *)

(* What one pass of the loop leaves: ret is what the call returns, NoResult
   when the loop goes on; res is what deserialize or the assembler
   returned for the report. *)
Pass(ret, res, m, asm, c) ==
    [ret |-> ret, res |-> res, msg |-> m, asm |-> asm, cur |-> c]

(* The arm of the match for a data frame: what self.asm.parse(frame)
   returned, a, decides; m is the frame's message and c the cursor. *)
MatchParsed(a, m, c) ==
    IF a.res = Panic THEN Pass(Panic, Panic, m, a, c)
    ELSE IF ~IsOk(a.res) THEN Pass(NoResult, a.res, m, a, c)
    ELSE IF a.res.val.some THEN Pass(Ok(a.res.val.val), a.res, m, a, c)
    ELSE Pass(NoResult, a.res, m, a, c)

(* The match on what AnyWs6in1Message::deserialize returned, d *)
MatchDeserialized(fi, buf, d, kind, b) ==
    IF d.res = Panic
    THEN Pass(Panic, Panic, NoMessage, Asm(fi, buf, NoResult), d.cur)
    ELSE IF ~IsOk(d.res)
    THEN Pass(NoResult, d.res, NoMessage, Asm(fi, buf, NoResult), d.cur)
    ELSE IF d.res.val.tag # "DataFrame"
    THEN Pass(NoResult, d.res, d.res.val, Asm(fi, buf, NoResult), d.cur)
    ELSE MatchParsed(
             Ws6in1AssemblerBase_parse(fi, buf, d.res.val.x, kind, b),
             d.res.val, d.cur)

(* One pass of the loop of read_weather_data: a report is read into the
   buffer and deserialized; a data frame is given to the assembler, whose
   record ends the call; every error of deserialize and of the assembler
   is printed and the loop goes on, as it does for any other message.
   io is what the transport does: "ok" or "read_failed". *)
Ws6in1Client_read_weather_data(fi, buf, io, bytes, kind, b) ==
    IF io = "read_failed"
    THEN Pass(HidError, NoResult, NoMessage, Asm(fi, buf, NoResult),
              Cursor(<<>>))
    ELSE MatchDeserialized(
             fi, buf, AnyWs6in1MessageBase_deserialize(Cursor(bytes)),
             kind, b)

(* The report the device sends for a data frame *)
Report(f) ==
    Ws6in1DataFrameBase_serialize(f, Cursor(Zeros(FRAME_LENGTH)),
                                  "release").cur.buf

(* The frames among those of the model that the device is taken to send:
   telegrams of three and of six fragments, with frames out of sequence
   among them, and single frames of a telegram of one fragment *)
ReadFrames ==
    {f \in Frames :
        \/ /\ f.hdr.frag_cnt \in {3, 6}
           /\ f.payload.data \in {Part1, Part2, Part3, Blank}
        \/ /\ f.hdr.frag_cnt = 1
           /\ f.hdr.frag_idx = 1}

(* Reports read from the device: data frames, the two
   commands, a command with an opcode that is none, a report of an
   unknown type, a data frame whose length byte is 55, a data frame cut
   short and an empty report *)
Reports ==
    {Report(f) : f \in ReadFrames}
    \cup {RawCmd(CMD_TYPE, SET_DATE_OPCODE, 0, MAGIC, 0),
          RawCmd(CMD_TYPE, SET_TIME_OPCODE, 0, MAGIC, 0),
          RawCmd(CMD_TYPE, 7, 0, MAGIC, 0),
          RawCmd(0, 0, 0, MAGIC, 0),
          RawData(FRAME_TYPE, 0, MAX_PAYLOAD_LEN + 1, 0, MAGIC, 0),
          SubSeq(RawData(FRAME_TYPE, 0, 0, 0, MAGIC, 0), 1,
                 FRAME_LENGTH - 1),
          <<>>}

(* read_weather_data is called and opens the device; the assembler is the
   client's and keeps its state from call to call. *)
OpenReadable(io) ==
    /\ \/ op = "new"
       \/ op = "read_weather_data" /\ returned.kind # "Panic"
    /\ returned' = (IF io = "open_failed" THEN HidError ELSE NoResult)
    /\ op' = (IF io = "open_failed" THEN "read_weather_data"
              ELSE "open_readable")
    /\ result' = NoResult
    /\ msg' = NoMessage
    /\ wire' = <<>>
    /\ pos' = 0
    /\ UNCHANGED <<build, storage, frag_idx, buffer, packet, fed,
                   accepted_frames, sent, replay>>

(* The state after a pass of the loop that left r *)
Passed(r) ==
    /\ returned' = r.ret
    /\ result' = r.res
    /\ msg' = r.msg
    /\ frag_idx' = r.asm.frag_idx
    /\ buffer' = r.asm.buffer
    /\ wire' = r.cur.buf
    /\ pos' = r.cur.pos
    /\ IF r.msg.tag = "DataFrame"
       THEN /\ packet' = r.msg.x
            /\ fed' = Fed(r.msg.x, r.res)
            /\ accepted_frames' = AcceptedFrames(r.msg.x, r.res)
       ELSE UNCHANGED <<packet, fed, accepted_frames>>
    /\ op' = (IF r.ret = NoResult THEN "read_input_report"
              ELSE "read_weather_data")

(* One pass of the loop inside the call *)
ReadInputReport(io, bytes) ==
    /\ op \in {"open_readable", "read_input_report"}
    /\ Passed(Ws6in1Client_read_weather_data(frag_idx, buffer, io, bytes,
                                             storage, build))
    /\ UNCHANGED <<build, storage, sent, replay>>

NextRead ==
    \/ \E io \in {"ok", "open_failed"} : OpenReadable(io)
    \/ \E bytes \in Reports : ReadInputReport("ok", bytes)
    \/ ReadInputReport("read_failed", <<>>)

SpecRead == Init /\ [][NextRead]_vars

(* The report just read made the assembler return a completed record. *)
Completed ==
    IF msg.tag = "DataFrame" /\ IsOk(result) THEN result.val.some
    ELSE FALSE

(* C38: read_weather_data returns Ok(record) exactly at the report for
   which the assembler returns a completed record; after every other
   report the call goes on with the next report, a report that is no data
   frame leaving the assembler as it was; the call ends otherwise only
   with the error of the transport. *)
C38_OnlyTransportErrorEnds ==
    /\ [](/\ op = "read_input_report" =>
                 /\ returned = NoResult
                 /\ ~Completed
          /\ op = "read_weather_data" =>
                 IF Completed THEN returned = Ok(result.val.val)
                 ELSE returned = HidError /\ result = NoResult)
    /\ [][(op' \in {"read_input_report", "read_weather_data"}
           /\ msg'.tag # "DataFrame")
              => UNCHANGED <<frag_idx, buffer>>]_vars

=============================================================================
